---- MODULE Spec2Model ----
(***************************************************************************)
(* A model of the learning_scheduler repository:                           *)
(*   - the URKCE spaced-repetition scheduler (src/learning_scheduler.py),  *)
(*   - the word store and its schema migration (src/Word_learning/core.py),*)
(*   - the quiz sessions (src/Word_learning/quiz.py) and the single-file   *)
(*     multiple-choice question (src/word_learning_scheduler.py).          *)
(* Dates are day ordinals: date.isoformat() is an order-preserving         *)
(* injection of the ordinal, and every comparison in the code goes through *)
(* date.fromisoformat, so the ordinal stands for the ISO string.           *)
(* Strings the code inspects character by character are sequences of       *)
(* one-character strings.  The mark "Delta" stands for the Greek capital   *)
(* delta and "delta" for the small one (str.upper maps small to capital).  *)
(***************************************************************************)
EXTENDS Integers, Sequences, FiniteSets, TLC

VARIABLES
    \* ---- scheduler (src/learning_scheduler.py)
    today,        \* date.today() as a day ordinal
    active,       \* LearningDB.active: sequence of items
    completed,    \* LearningDB.completed: sequence of items
    activeFile,   \* learning_items.json: sequence of item dicts
    doneFile,     \* completed_items.json: sequence of item dicts
    nextId,       \* next fresh item id (uuid4 in the code)
    sched_call,   \* the last scheduler operation: its arguments and outcome
    due,          \* the list returned by the last get_due_items call
    saving,       \* LearningDB.save is between its two file writes
    \* ---- word store (src/Word_learning/core.py)
    configured,   \* core.WORDS_FILE is not None: setup_dirs has run
    fileExists,   \* data/words.json exists
    wordsFile,    \* data/words.json: the stored collection, in file order
    logExists,    \* data/quizzes.jsonl exists
    logFile,      \* data/quizzes.jsonl: the lines of the session log
    now,          \* datetime.utcnow() as a counter
    db,           \* the collection the last load_db call returned
    store_call,   \* the last store operation and its outcome
    \* ---- quiz sessions (src/Word_learning/quiz.py, src/word_learning_scheduler.py)
    q_pc,         \* where the session function is: idle, ask (at a prompt), replay
    q_mode,       \* the mode of the session
    q_words,      \* words: the selection
    q_i,          \* the position in words of the item being asked
    q_correct,    \* correct_cnt
    q_choices,    \* choices: the options shown for the item being asked
    q_t0,         \* t0: the time the session started
    q_sessions,   \* sessions started so far
    quiz_call,    \* the last quiz step and its outcome
    \* ---- vocabulary (src/Word_learning/vocab.py, src/word_learning_scheduler.py)
    audio,        \* data/audio_cache: the mp3 files present, by path
    vocab_n,      \* vocabulary calls made so far
    vocab_call,   \* the last vocabulary call: its arguments and outcome
    \* ---- processes sharing the files
    writers,      \* the processes running add_word: where each is, and its db
    \* ---- text functions (src/Word_learning/utils.py)
    text_call     \* a call of a text function: its arguments and what it returned

schedVars == <<today, active, completed, activeFile, doneFile, nextId, sched_call, due,
              saving>>
storeVars == <<configured, fileExists, wordsFile, logExists, logFile, now, db, store_call>>
quizVars == <<q_pc, q_mode, q_words, q_i, q_correct, q_choices, q_t0, q_sessions, quiz_call>>
vocabVars == <<audio, vocab_n, vocab_call>>
otherVars == <<writers, text_call>>

vars == <<today, active, completed, activeFile, doneFile, nextId, sched_call, due, saving,
          configured, fileExists, wordsFile, logExists, logFile, now, db, store_call,
          q_pc, q_mode, q_words, q_i, q_correct, q_choices, q_t0, q_sessions, quiz_call,
          audio, vocab_n, vocab_call, writers, text_call>>

-----------------------------------------------------------------------------
(* Bounds of the model *)
MaxItems == 2
MaxReviews == 4
MaxDay == 1
MaxOn == 4
MaxWords == 3
MaxNow == 2
MaxSessions == 1

-----------------------------------------------------------------------------
(* Scheduler: LearningItem *)

\* INTERVALS = {0: 1, 1: 3, 2: 7, 3: 30}
INTERVALS == [m \in 0..3 |-> CASE m = 0 -> 1 [] m = 1 -> 3 [] m = 2 -> 7 [] m = 3 -> 30]

\* The marks a caller may pass: the three symbols, lower-case variants the
\* keyboard produces, and a mark that is none of them.
Marks == {"O", "o", "X", "x", "Delta", "Z"}

\* summary_update: None or a text
None == "<None>"
SummaryUpdates == {"s"}

TagLists == {<<>>, <<"ML">>}
TagFilters == {<<>>, <<"ml">>}

\* str.upper on the marks, str.lower on the tags
Upper(s) ==
    CASE s = "o" -> "O"
      [] s = "x" -> "X"
      [] s = "delta" -> "Delta"
      [] OTHER -> s

Lower(s) ==
    CASE s = "ML" -> "ml"
      [] s = "DB" -> "db"
      [] OTHER -> s

\* LearningItem(content, summary, tags) with the dataclass defaults
LearningItem(id, summary, tags, d) ==
    [id |-> id, summary |-> summary, initial_date |-> d, last_review_date |-> d,
     next_review_date |-> d + 1, memory_count |-> 0, status |-> "X",
     history |-> <<>>, tags |-> tags]

\* the mark test at the head of LearningItem.review
review_accepts(status) == Upper(status) \in {"O", "Delta", "X"}

\* mutant: the interval of the next level is looked up
_schedule_next_NextLevel(it, d) ==
    [it EXCEPT !.next_review_date = d + INTERVALS[IF it.memory_count < 3 THEN it.memory_count + 1 ELSE 3]]

\* mutant: the interval counts the day of the review as its first day
_schedule_next_SameDay(it, d) ==
    [it EXCEPT !.next_review_date = d + INTERVALS[it.memory_count] - 1]

_schedule_next(it, d) ==
    [it EXCEPT !.next_review_date = d + INTERVALS[it.memory_count]]

min(a, b) == IF a <= b THEN a ELSE b

\* mutant: X takes one level off instead of resetting to 0
review_XDecrements(it, status, summary_update, d) ==
    LET st == Upper(status)
        it1 == [it EXCEPT !.status = st,
                          !.last_review_date = d,
                          !.history = Append(@, [date |-> d, status |-> st])]
        it2 == IF summary_update # None THEN [it1 EXCEPT !.summary = summary_update] ELSE it1
        it3 == IF st = "O" THEN [it2 EXCEPT !.memory_count = min(@ + 1, 3)]
               ELSE IF st = "X" THEN [it2 EXCEPT !.memory_count = IF @ > 0 THEN @ - 1 ELSE 0]
               ELSE it2
    IN IF ~review_accepts(status)
       THEN [raised |-> TRUE, item |-> it]
       ELSE [raised |-> FALSE, item |-> _schedule_next(it3, d)]

\* mutant: the mark is tested after status and last_review_date are assigned
review_TestsAfterAssigning(it, status, summary_update, d) ==
    LET st == Upper(status)
        it1 == [it EXCEPT !.status = st,
                          !.last_review_date = d,
                          !.history = Append(@, [date |-> d, status |-> st])]
        it2 == IF summary_update # None THEN [it1 EXCEPT !.summary = summary_update] ELSE it1
        it3 == IF st = "O" THEN [it2 EXCEPT !.memory_count = min(@ + 1, 3)]
               ELSE IF st = "X" THEN [it2 EXCEPT !.memory_count = 0]
               ELSE it2
    IN IF ~review_accepts(status)
       THEN [raised |-> TRUE, item |-> [it EXCEPT !.status = st, !.last_review_date = d]]
       ELSE [raised |-> FALSE, item |-> _schedule_next(it3, d)]

\* mutant: the history keeps the latest entry only
review_KeepsLatest(it, status, summary_update, d) ==
    LET st == Upper(status)
        it1 == [it EXCEPT !.status = st,
                          !.last_review_date = d,
                          !.history = <<[date |-> d, status |-> st]>>]
        it2 == IF summary_update # None THEN [it1 EXCEPT !.summary = summary_update] ELSE it1
        it3 == IF st = "O" THEN [it2 EXCEPT !.memory_count = min(@ + 1, 3)]
               ELSE IF st = "X" THEN [it2 EXCEPT !.memory_count = 0]
               ELSE it2
    IN IF ~review_accepts(status)
       THEN [raised |-> TRUE, item |-> it]
       ELSE [raised |-> FALSE, item |-> _schedule_next(it3, d)]

\* LearningItem.review on date d: whether it raised ValueError, and the item
\* as the call leaves it (the test precedes every assignment)
review(it, status, summary_update, d) ==
    LET st == Upper(status)
        it1 == [it EXCEPT !.status = st,
                          !.last_review_date = d,
                          !.history = Append(@, [date |-> d, status |-> st])]
        it2 == IF summary_update # None THEN [it1 EXCEPT !.summary = summary_update] ELSE it1
        it3 == IF st = "O" THEN [it2 EXCEPT !.memory_count = min(@ + 1, 3)]
               ELSE IF st = "X" THEN [it2 EXCEPT !.memory_count = 0]
               ELSE it2
    IN IF ~review_accepts(status)
       THEN [raised |-> TRUE, item |-> it]
       ELSE [raised |-> FALSE, item |-> _schedule_next(it3, d)]

\* mutant: an item is due only after its date
is_due_Strict(it, on) == it.next_review_date < on

is_due(it, on) == it.next_review_date <= on

-----------------------------------------------------------------------------
(* Scheduler: LearningDB *)

\* mutant: list.remove that leaves the list as it was
remove_Keeps(s, x) == s

\* mutant: list.remove that empties the list
remove_Clears(s, x) == <<>>

\* list.remove(x): drops the first element equal to x
RECURSIVE remove(_, _)
remove(s, x) ==
    IF s = <<>> THEN <<>>
    ELSE IF Head(s) = x THEN Tail(s)
    ELSE <<Head(s)>> \o remove(Tail(s), x)

InSeq(s, x) == \E i \in 1..Len(s) : s[i] = x

\* the sort key of get_due_items; Python orders False before True
due_key(x) == <<x.next_review_date, x.memory_count, IF x.status = "X" THEN 1 ELSE 0>>

key_le(a, b) ==
    \/ a[1] < b[1]
    \/ a[1] = b[1] /\ a[2] < b[2]
    \/ a[1] = b[1] /\ a[2] = b[2] /\ a[3] <= b[3]

\* list.sort(key=...) is stable: an element goes after every element whose key
\* is not greater
RECURSIVE insert_sorted(_, _)
insert_sorted(s, x) ==
    IF s = <<>> THEN <<x>>
    ELSE IF key_le(due_key(Head(s)), due_key(x)) THEN <<Head(s)>> \o insert_sorted(Tail(s), x)
    ELSE <<x>> \o s

RECURSIVE sort(_)
sort(s) ==
    IF s = <<>> THEN <<>>
    ELSE insert_sorted(sort(SubSeq(s, 1, Len(s) - 1)), s[Len(s)])

lower_tags(tags) == {Lower(tags[i]) : i \in 1..Len(tags)}

get_due_items(pool0, on, tag_filter) ==
    LET pool == SelectSeq(pool0, LAMBDA it : is_due(it, on))
        wanted == lower_tags(tag_filter)
        pool2 == IF tag_filter # <<>>
                 THEN SelectSeq(pool, LAMBDA it : wanted \cap lower_tags(it.tags) # {})
                 ELSE pool
    IN sort(pool2)

\* the promotion test of review_item: it reads the mark as passed, not as
\* upper-cased by review
promotes(it, status) == it.memory_count >= 3 /\ status = "O"

NoCall == [op |-> "none", id |-> 0, mark |-> "", pool |-> "", raised |-> ""]

TotalReviews ==
    LET RECURSIVE Sum(_)
        Sum(s) == IF s = <<>> THEN 0 ELSE Len(Head(s).history) + Sum(Tail(s))
    IN Sum(active) + Sum(completed)

SchedInit ==
    /\ today = 0
    /\ active = <<>>
    /\ completed = <<>>
    /\ activeFile = <<>>
    /\ doneFile = <<>>
    /\ nextId = 1
    /\ sched_call = NoCall
    /\ due = <<>>
    /\ saving = FALSE

\* add_item; LearningDB.save rewrites both files from the pools
add_item(summary, tags) ==
    /\ nextId <= MaxItems
    /\ LET it == LearningItem(nextId, summary, tags, today)
       IN /\ active' = Append(active, it)
          /\ activeFile' = Append(active, it)
          /\ doneFile' = completed
          /\ sched_call' = [op |-> "add_item", id |-> nextId, mark |-> "",
                            pool |-> "active", raised |-> ""]
    /\ nextId' = nextId + 1
    /\ due' = <<>>
    /\ UNCHANGED <<today, completed>>

\* review_item on the i-th item of the active pool
review_active(i, status, summary_update) ==
    /\ i \in 1..Len(active)
    /\ TotalReviews < MaxReviews
    /\ due' = <<>>
    /\ UNCHANGED <<today, nextId>>
    /\ LET r == review(active[i], status, summary_update, today)
           it == r.item
           act1 == [active EXCEPT ![i] = it]
           moved == promotes(it, status)
           act2 == IF moved THEN remove(act1, it) ELSE act1
           com2 == IF moved THEN Append(completed, it) ELSE completed
       IN IF r.raised
          THEN \* ValueError out of item.review: no move, no save
               /\ active' = act1
               /\ sched_call' = [op |-> "review_item", id |-> it.id, mark |-> status,
                                 pool |-> "active", raised |-> "status"]
               /\ UNCHANGED <<completed, activeFile, doneFile>>
          ELSE /\ active' = act2
               /\ completed' = com2
               /\ activeFile' = act2
               /\ doneFile' = com2
               /\ sched_call' = [op |-> "review_item", id |-> it.id, mark |-> status,
                                 pool |-> "active", raised |-> ""]

\* review_item on the i-th item of the completed pool (a caller holding an
\* item of db.completed): when the item is promoted again, active.remove
\* raises ValueError after review has changed it and before save
review_completed(i, status, summary_update) ==
    /\ i \in 1..Len(completed)
    /\ TotalReviews < MaxReviews
    /\ due' = <<>>
    /\ UNCHANGED <<today, nextId, active>>
    /\ LET r == review(completed[i], status, summary_update, today)
           it == r.item
           com1 == [completed EXCEPT ![i] = it]
       IN /\ completed' = com1
          /\ IF r.raised
             THEN /\ sched_call' = [op |-> "review_item", id |-> it.id, mark |-> status,
                                    pool |-> "completed", raised |-> "status"]
                  /\ UNCHANGED <<activeFile, doneFile>>
             ELSE IF promotes(it, status) /\ ~InSeq(active, it)
             THEN /\ sched_call' = [op |-> "review_item", id |-> it.id, mark |-> status,
                                    pool |-> "completed", raised |-> "remove"]
                  /\ UNCHANGED <<activeFile, doneFile>>
             ELSE /\ activeFile' = active
                  /\ doneFile' = com1
                  /\ sched_call' = [op |-> "review_item", id |-> it.id, mark |-> status,
                                    pool |-> "completed", raised |-> ""]

\* one item of the CLI's review command: an item due today, a mark the
\* prompt loop lets through, passed to review_item as typed
cli_review(i, status, summary_update) ==
    /\ i \in 1..Len(active)
    /\ is_due(active[i], today)
    /\ Upper(status) \in {"O", "Delta", "X"}
    /\ review_active(i, status, summary_update)

\* a get_due_items call: the returned list is kept in due
query_due(on, tag_filter) ==
    /\ due' = get_due_items(active, on, tag_filter)
    /\ sched_call' = [op |-> "get_due_items", id |-> 0, mark |-> "",
                      pool |-> "active", raised |-> ""]
    /\ UNCHANGED <<today, active, completed, activeFile, doneFile, nextId>>

\* LearningDB(): a new process reads both files
load ==
    /\ active' = activeFile
    /\ completed' = doneFile
    /\ sched_call' = [op |-> "load", id |-> 0, mark |-> "", pool |-> "", raised |-> ""]
    /\ due' = <<>>
    /\ UNCHANGED <<today, activeFile, doneFile, nextId>>

\* midnight passes
tick ==
    /\ today < MaxDay
    /\ today' = today + 1
    /\ sched_call' = NoCall
    /\ due' = <<>>
    /\ UNCHANGED <<active, completed, activeFile, doneFile, nextId>>

AddItem ==
    /\ \E tags \in TagLists : add_item("", tags)
    /\ UNCHANGED <<storeVars, quizVars, vocabVars, otherVars, saving>>
ReviewActive ==
    /\ \E i \in 1..MaxItems, m \in Marks, u \in SummaryUpdates : review_active(i, m, u)
    /\ UNCHANGED <<storeVars, quizVars, vocabVars, otherVars, saving>>
ReviewCompleted ==
    /\ \E i \in 1..MaxItems, m \in Marks, u \in SummaryUpdates : review_completed(i, m, u)
    /\ UNCHANGED <<storeVars, quizVars, vocabVars, otherVars, saving>>
CliReview ==
    /\ \E i \in 1..MaxItems, m \in Marks, u \in SummaryUpdates : cli_review(i, m, u)
    /\ UNCHANGED <<storeVars, quizVars, vocabVars, otherVars, saving>>
QueryDue ==
    /\ \E on \in 0..MaxOn, f \in TagFilters : query_due(on, f)
    /\ UNCHANGED <<storeVars, quizVars, vocabVars, otherVars, saving>>
Load ==
    /\ load
    /\ UNCHANGED <<storeVars, quizVars, vocabVars, otherVars, saving>>
Tick ==
    /\ tick
    /\ UNCHANGED <<storeVars, quizVars, vocabVars, otherVars, saving>>

\* The same calls with LearningDB.save as the two writes it is: the call
\* changes the pools and writes learning_items.json, and completed_items.json
\* is written in a step of its own; the process can stop in between.

\* the pools review_item leaves
active_after(i, it, status) ==
    IF promotes(it, status) THEN remove([active EXCEPT ![i] = it], it)
    ELSE [active EXCEPT ![i] = it]
completed_after(it, status) ==
    IF promotes(it, status) THEN Append(completed, it) ELSE completed

\* add_item up to the first write of save
add_item_saves_active(summary, tags) ==
    /\ ~saving
    /\ nextId <= MaxItems
    /\ active' = Append(active, LearningItem(nextId, summary, tags, today))
    /\ activeFile' = Append(active, LearningItem(nextId, summary, tags, today))
    /\ saving' = TRUE
    /\ sched_call' = [op |-> "add_item", id |-> nextId, mark |-> "",
                      pool |-> "active", raised |-> ""]
    /\ nextId' = nextId + 1
    /\ due' = <<>>
    /\ UNCHANGED <<today, completed, doneFile>>

\* review_item on the i-th active item up to the first write of save; a
\* mark item.review refuses ends the call before save
review_item_saves_active(i, r, status) ==
    /\ active' = IF r.raised THEN [active EXCEPT ![i] = r.item]
                 ELSE active_after(i, r.item, status)
    /\ completed' = IF r.raised THEN completed ELSE completed_after(r.item, status)
    /\ activeFile' = IF r.raised THEN activeFile ELSE active_after(i, r.item, status)
    /\ saving' = ~r.raised
    /\ sched_call' = [op |-> "review_item", id |-> r.item.id, mark |-> status,
                      pool |-> "active",
                      raised |-> IF r.raised THEN "status" ELSE ""]
    /\ due' = <<>>
    /\ UNCHANGED <<today, nextId, doneFile>>

review_item_begins(i, status, summary_update) ==
    /\ ~saving
    /\ i \in 1..Len(active)
    /\ TotalReviews < MaxReviews
    /\ review_item_saves_active(i, review(active[i], status, summary_update, today), status)

\* the second write of save: _save_file(done_path, completed)
save_completed ==
    /\ saving
    /\ doneFile' = completed
    /\ saving' = FALSE
    /\ UNCHANGED <<today, active, completed, activeFile, nextId, sched_call, due>>

\* the process stops, at any point, and a new one starts: LearningDB()
restart ==
    /\ load
    /\ saving' = FALSE

AddItemSavesActive ==
    /\ \E tags \in TagLists : add_item_saves_active("", tags)
    /\ UNCHANGED <<storeVars, quizVars, vocabVars, otherVars>>
ReviewItemBegins ==
    /\ \E i \in 1..MaxItems, m \in Marks, u \in SummaryUpdates : review_item_begins(i, m, u)
    /\ UNCHANGED <<storeVars, quizVars, vocabVars, otherVars>>
SaveCompleted ==
    /\ save_completed
    /\ UNCHANGED <<storeVars, quizVars, vocabVars, otherVars>>
Restart ==
    /\ restart
    /\ UNCHANGED <<storeVars, quizVars, vocabVars, otherVars>>

SaveNext ==
    \/ AddItemSavesActive
    \/ ReviewItemBegins
    \/ SaveCompleted
    \/ Restart

SchedNext ==
    \/ AddItem
    \/ ReviewActive
    \/ ReviewCompleted
    \/ CliReview
    \/ QueryDue
    \/ Load
    \/ Tick

-----------------------------------------------------------------------------
(* Word store: records *)

\* A record is a Python dict: a function whose domain is the set of keys
\* present.  A JSON value that may be null, a bare string, a list or a dict
\* carries its kind.  json.dumps followed by json.loads returns these values
\* as they were (key order included), so the file holds the collection.
Put(d, k, v) == [x \in DOMAIN d \cup {k} |-> IF x = k THEN v ELSE d[x]]
Has(d, k) == k \in DOMAIN d
EmptyDict == [x \in {} |-> 0]
Null == [kind |-> "null", v |-> <<>>]
List(s) == [kind |-> "list", v |-> s]
Str(s) == [kind |-> "str", v |-> <<s>>]
Dict(f) == [kind |-> "dict", v |-> f]

_REQUIRED_MODES == <<"choice", "recall", "spelling", "sentence">>

\* the counter part of _ensure_schema: the c and w of one mode
with_counter(mdict, x) == IF Has(mdict, x) THEN mdict ELSE Put(mdict, x, 0)

mode_or_empty(stats, mode) == IF Has(stats, mode) THEN stats[mode] ELSE EmptyDict

ensure_mode(stats, mode) ==
    [stats |-> Put(stats, mode,
                   with_counter(with_counter(mode_or_empty(stats, mode), "c"), "w")),
     changed |-> \/ ~Has(mode_or_empty(stats, mode), "c")
                 \/ ~Has(mode_or_empty(stats, mode), "w")]

modes_rest(one, rest) == [stats |-> rest.stats, changed |-> one.changed \/ rest.changed]

RECURSIVE ensure_modes(_, _)
modes_step(one, modes) == modes_rest(one, ensure_modes(one.stats, Tail(modes)))

ensure_modes(stats, modes) ==
    IF modes = <<>> THEN [stats |-> stats, changed |-> FALSE]
    ELSE modes_step(ensure_mode(stats, Head(modes)), modes)

\* _ensure_schema works on the record in place and keeps a changed flag: each
\* step below takes and returns the pair of the record and the flag.
ensure_tags(rec) ==
    IF ~Has(rec, "tags") \/ rec.tags.kind = "null"
    THEN [rec |-> Put(rec, "tags", List(<<>>)), changed |-> TRUE]
    ELSE IF rec.tags.kind # "list"
    THEN [rec |-> Put(rec, "tags", List(rec.tags.v)), changed |-> TRUE]
    ELSE [rec |-> rec, changed |-> FALSE]

ensure_examples(p) ==
    IF ~Has(p.rec, "examples") \/ p.rec.examples.kind = "null"
    THEN [rec |-> Put(p.rec, "examples", List(<<>>)), changed |-> TRUE]
    ELSE p

ensure_definition(p) ==
    IF ~Has(p.rec, "definition_en")
    THEN [rec |-> Put(p.rec, "definition_en", <<>>), changed |-> TRUE]
    ELSE p

\* stats = rec.setdefault("stats", {}); a null is replaced by {}
stats_or_empty(rec) ==
    IF Has(rec, "stats") /\ rec.stats.kind # "null" THEN rec.stats.v ELSE EmptyDict

ensure_stats_with(p, ms) ==
    [rec |-> Put(p.rec, "stats", Dict(ms.stats)),
     changed |-> \/ p.changed
                 \/ (Has(p.rec, "stats") /\ p.rec.stats.kind = "null")
                 \/ ms.changed]

\* mutant: the counters of the required modes are written anew
ensure_stats_Resets(p) ==
    ensure_stats_with(p, ensure_modes(EmptyDict, _REQUIRED_MODES))

ensure_stats(p) ==
    ensure_stats_with(p, ensure_modes(stats_or_empty(p.rec), _REQUIRED_MODES))

\* a normalisation that stamps added_at whether it is there or not
ensure_added_at_Always(p, t) ==
    [rec |-> Put(p.rec, "added_at", t), changed |-> TRUE]

ensure_added_at(p, t) ==
    IF ~Has(p.rec, "added_at")
    THEN [rec |-> Put(p.rec, "added_at", t), changed |-> TRUE]
    ELSE p

\* a normalisation that stamps added_at anew on every call
_ensure_schema_Restamps(rec, t) ==
    [rec |-> Put(ensure_stats(ensure_definition(ensure_examples(ensure_tags(rec)))).rec,
                 "added_at", t),
     changed |-> TRUE]

\* _ensure_schema(rec): the record as the call leaves it, and its return value
_ensure_schema(rec, t) ==
    ensure_added_at(ensure_stats(ensure_definition(ensure_examples(ensure_tags(rec)))), t)

\* any(_ensure_schema(rec) for rec in db.values()): any() stops at the first
\* True, and the generator is not run for the records after it
any_rest(head, rest) == [db |-> <<head>> \o rest.db, changed |-> rest.changed]

RECURSIVE any_ensure_schema(_, _)
any_step(k, e, rest, t) ==
    IF e.changed THEN [db |-> <<[k |-> k, r |-> e.rec]>> \o rest, changed |-> TRUE]
    ELSE any_rest([k |-> k, r |-> e.rec], any_ensure_schema(rest, t))

any_ensure_schema(entries, t) ==
    IF entries = <<>> THEN [db |-> <<>>, changed |-> FALSE]
    ELSE any_step(Head(entries).k, _ensure_schema(Head(entries).r, t), Tail(entries), t)

\* load_db on a store: the collection returned and the file it leaves
load_db_with(parsed, res) ==
    [db |-> res.db, saved |-> res.changed,
     file |-> IF res.changed THEN res.db ELSE parsed]

stored(exists, file) == IF exists THEN file ELSE <<>>

load_db(conf, exists, file, t) ==
    load_db_with(stored(exists, file), any_ensure_schema(stored(exists, file), t))

-----------------------------------------------------------------------------
(* Word store: the stored collections the model starts from *)

Words ==
    << <<"c", "a", "t">>,
       <<"i", " ", "l", "i", "k", "e", " ", "t", "e", "a">>,
       <<"d", "o", "g">>,
       <<"e", "m", "u">> >>

Counters(c, w) == [x \in {"c", "w"} |-> IF x = "c" THEN c ELSE w]
FullStats == [m \in {"choice", "recall", "spelling", "sentence"} |-> Counters(0, 0)]

\* a record of the current schema
CurrentRec ==
    [tags |-> List(<<>>), examples |-> List(<<>>), definition_en |-> <<"d">>,
     stats |-> Dict(FullStats), added_at |-> 0]
\* a record as vocab.add_word writes it: no sentence counter
AddedRec ==
    [tags |-> List(<<>>), examples |-> List(<<>>), definition_en |-> <<"d">>,
     stats |-> Dict([m \in {"choice", "recall", "spelling"} |-> Counters(0, 0)]),
     added_at |-> 0]
\* a record as the single-file add_word writes it: no stats at all
SingleFileRec ==
    [tags |-> List(<<>>), examples |-> List(<<>>), definition_en |-> <<"d">>,
     correct_cnt |-> 1, wrong_cnt |-> 2, added_at |-> 0]
\* older forms: nulls, a bare-string tag, a counter with c only
NullsRec == [tags |-> Null, examples |-> Null, stats |-> Null]
BareTagRec ==
    [tags |-> Str("sentence"), examples |-> List(<<"x">>), definition_en |-> <<"d">>,
     stats |-> Dict([m \in {"choice"} |-> [x \in {"c"} |-> 2]]), added_at |-> 0]

Shapes == {CurrentRec, AddedRec, SingleFileRec, NullsRec, BareTagRec}

StoredCollections ==
    {[i \in 1..n |-> [k |-> Words[i], r |-> f[i]]] :
        n \in 0..MaxWords, f \in [1..MaxWords -> Shapes]}

\* one stored record in use, with any of the five schema fields missing
UsedRec ==
    [tags |-> List(<<"t">>), examples |-> List(<<"x">>), definition_en |-> <<"d">>,
     stats |-> Dict([m \in {"choice", "recall", "spelling", "sentence"} |->
                        IF m = "choice" THEN Counters(2, 1) ELSE Counters(0, 0)]),
     added_at |-> 0]

Without(rec, fields) == [f \in DOMAIN rec \ fields |-> rec[f]]

LackingCollections ==
    {<<[k |-> Words[1], r |-> Without(UsedRec, fields)]>> : fields \in SUBSET DOMAIN UsedRec}

NoStoreCall == [op |-> "none", saved |-> FALSE, raised |-> ""]

StoreIdle ==
    /\ configured = FALSE
    /\ fileExists = FALSE
    /\ wordsFile = <<>>
    /\ logExists = FALSE
    /\ logFile = <<>>
    /\ now = 1
    /\ db = <<>>
    /\ store_call = NoStoreCall

\* a fresh process over a words.json left by earlier runs (or none)
StoreInit ==
    /\ configured = FALSE
    /\ fileExists \in BOOLEAN
    /\ wordsFile \in StoredCollections
    /\ ~fileExists => wordsFile = <<>>
    /\ logExists = fileExists
    /\ logFile = <<>>
    /\ now = 1
    /\ db = <<>>
    /\ store_call = NoStoreCall

\* core.setup_dirs: binds the paths, creates an empty words.json and an
\* empty log when they are missing
setup_dirs ==
    /\ configured' = TRUE
    /\ fileExists' = TRUE
    /\ wordsFile' = IF fileExists THEN wordsFile ELSE <<>>
    /\ logExists' = TRUE
    /\ logFile' = IF logExists THEN logFile ELSE <<>>
    /\ store_call' = [op |-> "setup_dirs", saved |-> FALSE, raised |-> ""]
    /\ UNCHANGED <<now, db>>

\* a core.load_db call (it runs setup_dirs itself when the file is missing)
load_db_result(res) ==
    /\ db' = res.db
    /\ wordsFile' = res.file
    /\ store_call' = [op |-> "load_db", saved |-> res.saved, raised |-> ""]

load_db_call ==
    /\ load_db_result(load_db(configured, fileExists, wordsFile, now))
    /\ configured' = TRUE
    /\ fileExists' = TRUE
    /\ logExists' = (logExists \/ ~configured \/ ~fileExists)
    /\ UNCHANGED <<now, logFile>>

\* the UTC clock advances
clock ==
    /\ now < MaxNow
    /\ now' = now + 1
    /\ store_call' = NoStoreCall
    /\ UNCHANGED <<configured, fileExists, wordsFile, logExists, logFile, db>>

\* a fresh process over a words.json of one record of an older form
SchemaInit ==
    /\ configured = FALSE
    /\ fileExists = TRUE
    /\ wordsFile \in LackingCollections
    /\ logExists \in BOOLEAN
    /\ logFile = <<>>
    /\ now = 1
    /\ db = <<>>
    /\ store_call = NoStoreCall

\* the single-file setup_dirs: binds the paths and writes {} when there is
\* no words.json; the log file is not created
sf_setup_dirs ==
    /\ configured' = TRUE
    /\ fileExists' = TRUE
    /\ wordsFile' = IF fileExists THEN wordsFile ELSE <<>>
    /\ store_call' = [op |-> "setup_dirs", saved |-> FALSE, raised |-> ""]
    /\ UNCHANGED <<logExists, logFile, now, db>>

\* the single-file load_db: DB_FILE.read_text() and nothing else; DB_FILE is
\* Path('') until setup_dirs binds it, and reading that path raises
sf_load_db(conf, exists, file) ==
    IF ~conf THEN [raised |-> "IsADirectoryError", db |-> <<>>]
    ELSE IF ~exists THEN [raised |-> "FileNotFoundError", db |-> <<>>]
    ELSE [raised |-> "", db |-> file]

sf_load_db_call ==
    /\ store_call' = [op |-> "load_db", saved |-> FALSE,
                      raised |-> sf_load_db(configured, fileExists, wordsFile).raised]
    /\ db' = IF sf_load_db(configured, fileExists, wordsFile).raised # "" THEN db
             ELSE sf_load_db(configured, fileExists, wordsFile).db
    /\ UNCHANGED <<configured, fileExists, wordsFile, logExists, logFile, now>>

SetupDirs ==
    /\ setup_dirs
    /\ UNCHANGED <<schedVars, quizVars, vocabVars, otherVars>>
LoadDb ==
    /\ load_db_call
    /\ UNCHANGED <<schedVars, quizVars, vocabVars, otherVars>>
Clock ==
    /\ clock
    /\ UNCHANGED <<schedVars, quizVars, vocabVars, otherVars>>

SfSetupDirs ==
    /\ sf_setup_dirs
    /\ UNCHANGED <<schedVars, quizVars, vocabVars, otherVars>>
SfLoadDb ==
    /\ sf_load_db_call
    /\ UNCHANGED <<schedVars, quizVars, vocabVars, otherVars>>

StoreNext ==
    \/ SetupDirs
    \/ LoadDb
    \/ Clock

-----------------------------------------------------------------------------
(* Text *)

\* Keys, definitions and typed answers are sequences of one-character
\* strings; "sup2" stands for the one character SUPERSCRIPT TWO.
AsciiDigits == {"0", "1", "2", "3", "4", "5", "6", "7", "8", "9"}
AsciiLower == {"a", "b", "c", "d", "e", "g", "i", "k", "l", "m", "o", "t", "u", "x"}
AsciiUpper == {"C", "A", "T"}

\* str.lower, one character
lower_char(c) ==
    CASE c = "C" -> "c"
      [] c = "A" -> "a"
      [] c = "T" -> "t"
      [] OTHER -> c

lower(s) == [i \in 1..Len(s) |-> lower_char(s[i])]

RECURSIVE lstrip(_)
lstrip(s) == IF s # <<>> /\ Head(s) = " " THEN lstrip(Tail(s)) ELSE s

RECURSIVE rstrip(_)
rstrip(s) == IF s # <<>> /\ s[Len(s)] = " " THEN rstrip(SubSeq(s, 1, Len(s) - 1)) ELSE s

strip(s) == rstrip(lstrip(s))

\* str.isdigit: true of the superscript digits as well as the decimal ones
isdigit(s) == s # <<>> /\ \A i \in 1..Len(s) : s[i] \in AsciiDigits \cup {"sup2"}

digit_value(c) ==
    CASE c = "0" -> 0 [] c = "1" -> 1 [] c = "2" -> 2 [] c = "3" -> 3 [] c = "4" -> 4
      [] c = "5" -> 5 [] c = "6" -> 6 [] c = "7" -> 7 [] c = "8" -> 8 [] c = "9" -> 9

RECURSIVE decimal(_)
decimal(s) ==
    IF s = <<>> THEN 0
    ELSE 10 * decimal(SubSeq(s, 1, Len(s) - 1)) + digit_value(s[Len(s)])

\* int(s) on a non-empty s: ValueError unless every character is a decimal digit
int(s) ==
    IF \A i \in 1..Len(s) : s[i] \in AsciiDigits
    THEN [raised |-> "", v |-> decimal(s)]
    ELSE [raised |-> "ValueError", v |-> 0]

min3(x, y, z) == IF x <= y /\ x <= z THEN x ELSE IF y <= z THEN y ELSE z

\* the inner loop of utils.levenshtein: the row curr, from its first cell
RECURSIVE levenshtein_row(_, _, _, _)
levenshtein_row(curr, prev, ca, b) ==
    IF Len(curr) = Len(b) + 1 THEN curr
    ELSE levenshtein_row(
            Append(curr, min3(prev[Len(curr) + 1] + 1,
                              curr[Len(curr)] + 1,
                              prev[Len(curr)] + (IF ca # b[Len(curr)] THEN 1 ELSE 0))),
            prev, ca, b)

RECURSIVE levenshtein_rows(_, _, _, _)
levenshtein_rows(prev, a, b, i) ==
    IF i > Len(a) THEN prev
    ELSE levenshtein_rows(levenshtein_row(<<i>>, prev, a[i], b), a, b, i + 1)

levenshtein_ordered(a, b) ==
    IF Len(b) = 0 THEN Len(a)
    ELSE levenshtein_rows([j \in 1..(Len(b) + 1) |-> j - 1], a, b, 1)[Len(b) + 1]

\* a distance that compares the strings position by position
RECURSIVE differing(_, _)
differing(a, b) ==
    IF a = <<>> \/ b = <<>> THEN Len(a) + Len(b)
    ELSE (IF Head(a) # Head(b) THEN 1 ELSE 0) + differing(Tail(a), Tail(b))
levenshtein_Positional(a, b) == differing(a, b)

levenshtein(a, b) ==
    IF Len(a) < Len(b) THEN levenshtein_ordered(b, a) ELSE levenshtein_ordered(a, b)

\* the strings a text function is called with
MaxLen == 3
Alphabet == {"a", "b"}
Strings(n) == UNION {[1..k -> Alphabet] : k \in 0..n}

NoTextCall == [op |-> "none", a |-> <<>>, b |-> <<>>, out |-> 0]

TextInit == text_call \in {[NoTextCall EXCEPT !.a = x, !.b = y] : x, y \in Strings(MaxLen)}

\* a call levenshtein(a, b)
levenshtein_call ==
    /\ text_call.op = "none"
    /\ text_call' = [text_call EXCEPT !.op = "levenshtein",
                                      !.out = levenshtein(text_call.a, text_call.b)]

\* re.findall(r"[A-Za-z0-9]+", text.lower()), the first character of each match
alnum(c) == c \in AsciiLower \cup AsciiUpper \cup AsciiDigits

RECURSIVE first_letters(_, _)
first_letters(t, i) ==
    IF i > Len(t) THEN <<>>
    ELSE (IF alnum(t[i]) /\ (i = 1 \/ ~alnum(t[i - 1])) THEN <<t[i]>> ELSE <<>>)
         \o first_letters(t, i + 1)

_first_letter_signature(text) == first_letters(lower(text), 1)

max(a, b) == IF a >= b THEN a ELSE b

\* _lev_ratio as the fraction n/d: 1.0 - dist / max(len(a), len(b))
lev_ratio_of(a, b) ==
    IF a = <<>> /\ b = <<>> THEN [n |-> 1, d |-> 1]
    ELSE [n |-> max(Len(a), Len(b)) - levenshtein(a, b), d |-> max(Len(a), Len(b))]

_lev_ratio(a, b) == lev_ratio_of(lower(strip(a)), lower(strip(b)))

\* ratio >= sentence_threshold, the threshold in hundredths
sentence_threshold == 90
ratio_ge(ratio, hundredths) == ratio.n * 100 >= hundredths * ratio.d

-----------------------------------------------------------------------------
(* Quiz sessions of the package: selection *)

Range(s) == {s[i] : i \in 1..Len(s)}
get(d, k, default) == IF Has(d, k) THEN d[k] ELSE default
Take(s, n) == SubSeq(s, 1, IF n < Len(s) THEN n ELSE Len(s))
Keys(d) == [i \in 1..Len(d) |-> d[i].k]
rec_of(d, key) == d[CHOOSE i \in 1..Len(d) : d[i].k = key].r
set_rec(d, key, rec) ==
    [i \in 1..Len(d) |-> IF d[i].k = key THEN [k |-> key, r |-> rec] ELSE d[i]]

\* rec.get("tags", []) and rec.get("definition_en", "")
tags_of(rec) == IF Has(rec, "tags") THEN rec.tags.v ELSE <<>>
def_of(rec) == get(rec, "definition_en", <<>>)

_is_sentence(rec) == "sentence" \in Range(tags_of(rec))

\* mutant: the exclude list is not looked at
_filter_by_tags_IncludeOnly(d, include, exclude) ==
    LET want(w) == include # <<>> => Range(include) \cap Range(tags_of(rec_of(d, w))) # {}
    IN SelectSeq(Keys(d), want)

_filter_by_tags(d, include, exclude) ==
    LET want(w) == include # <<>> => Range(include) \cap Range(tags_of(rec_of(d, w))) # {}
        free(w) == exclude # <<>> => Range(exclude) \cap Range(tags_of(rec_of(d, w))) = {}
    IN SelectSeq(SelectSeq(Keys(d), want), free)

\* _stats(rec, key): the record after the two setdefault calls
with_stats(rec) == IF Has(rec, "stats") THEN rec ELSE Put(rec, "stats", Dict(EmptyDict))

with_mode(rec, key) ==
    IF Has(rec.stats.v, key) THEN rec
    ELSE Put(rec, "stats", Dict(Put(rec.stats.v, key, Counters(0, 0))))

_stats_setdefault(rec, key) == with_mode(with_stats(rec), key)

\* _stats(rec, key): the counter dict returned
_stats(rec, key) == _stats_setdefault(rec, key).stats.v[key]

\* (c, w, tot, err_rate); err_rate as the fraction n/d
stats_tuple_of(c, w) ==
    [c |-> c, w |-> w, tot |-> c + w,
     err |-> IF c + w # 0 THEN [n |-> w, d |-> c + w] ELSE [n |-> 1, d |-> 1]]

counters_tuple(st) == stats_tuple_of(get(st, "c", 0), get(st, "w", 0))

_stats_tuple(rec, key) == counters_tuple(_stats(rec, key))

\* the collection after _stats_tuple has been called on the records of keys
touched(d, keys, mode) ==
    [i \in 1..Len(d) |->
        IF d[i].k \in keys THEN [k |-> d[i].k, r |-> _stats_setdefault(d[i].r, mode)]
        ELSE d[i]]

has_def(d, w) == strip(def_of(rec_of(d, w))) # <<>>

\* the sort keys as the order of the sorted list: (tot, -wrong) ascending;
\* wrong with reverse=True; (wrong, err, tot) with reverse=True
frac_lt(x, y) == x.n * y.d < y.n * x.d

key_before(order, a, b) ==
    IF order = "least" THEN a.tot < b.tot \/ (a.tot = b.tot /\ -a.w < -b.w)
    ELSE IF order = "wrong" THEN a.w > b.w
    ELSE \/ a.w > b.w
         \/ a.w = b.w /\ frac_lt(b.err, a.err)
         \/ a.w = b.w /\ ~frac_lt(b.err, a.err) /\ ~frac_lt(a.err, b.err) /\ a.tot > b.tot

\* list.sort(key=...) of items whose keys are keys: stable
list_sort(items, keys, order) ==
    [p \in 1..Len(items) |->
        items[CHOOSE i \in 1..Len(items) :
            p = 1 + Cardinality({j \in 1..Len(items) :
                        \/ key_before(order, keys[j], keys[i])
                        \/ (~key_before(order, keys[i], keys[j]) /\ j < i)})]]

sorted_by_stats(d, items, mode, order) ==
    list_sort(items, [i \in 1..Len(items) |-> _stats_tuple(rec_of(d, items[i]), mode)],
              order)

\* items[: min(n, len(items))] of the sorted list, and the collection after
\* _stats_tuple has been called on the records of seen
pick_sorted(d, seen, items, mode, order, n) ==
    [db |-> touched(d, Range(seen), mode),
     items |-> Take(sorted_by_stats(d, items, mode, order), n)]

with_def(d, items, require_def) ==
    LET eligible(w) == has_def(d, w)
    IN IF require_def THEN SelectSeq(items, eligible) ELSE items

\* mutant: the most-missed words first, whatever their totals
_pick_items_for_choice_MostMissed(d, n, include_tags, exclude_tags, require_def) ==
    LET items == with_def(d, _filter_by_tags(d, include_tags, exclude_tags), require_def)
    IN pick_sorted(d, items, items, "choice", "wrong", n)

\* _pick_items_for_choice: the words picked and the collection as it leaves it
_pick_items_for_choice(d, n, include_tags, exclude_tags, require_def) ==
    LET items == with_def(d, _filter_by_tags(d, include_tags, exclude_tags), require_def)
    IN pick_sorted(d, items, items, "choice", "least", n)

\* mutant: a word stays in the review queue until c reaches w + 3
_pick_items_for_wrong_Lenient(d, n, include_tags, exclude_tags, require_def) ==
    LET counted == with_def(d, _filter_by_tags(d, include_tags, exclude_tags), require_def)
        weak(w) == _stats_tuple(rec_of(d, w), "choice").c
                       < _stats_tuple(rec_of(d, w), "choice").w + 3
    IN pick_sorted(d, counted, SelectSeq(counted, weak), "choice", "wrong", n)

\* _pick_items_for_wrong
_pick_items_for_wrong(d, n, include_tags, exclude_tags, require_def) ==
    LET counted == with_def(d, _filter_by_tags(d, include_tags, exclude_tags), require_def)
        weak(w) == _stats_tuple(rec_of(d, w), "choice").c
                       < _stats_tuple(rec_of(d, w), "choice").w + 2
    IN pick_sorted(d, counted, SelectSeq(counted, weak), "choice", "wrong", n)

\* _pick_items_for_spelling
_pick_items_for_spelling(d, n, strategy, tags) ==
    LET items == _filter_by_tags(d, tags, <<>>)
    IN pick_sorted(d, items, items, "spelling", IF strategy = "hard" THEN "hard" ELSE "least", n)

-----------------------------------------------------------------------------
(* Quiz sessions of the package: questions and grading *)

\* the lists that hold one target and k of the others, in any order
arranged(target, others, k) ==
    {[i \in 1..(k + 1) |-> IF p[i] = 0 THEN target ELSE others[p[i]]] :
        p \in {q \in [1..(k + 1) -> 0..Len(others)] :
                  /\ \E i \in 1..(k + 1) : q[i] = 0
                  /\ \A i, j \in 1..(k + 1) : q[i] = q[j] => i = j}}

other_defs(d, correct_def) ==
    LET other(x) == x # <<>> /\ x # correct_def
    IN SelectSeq([i \in 1..Len(d) |-> def_of(d[i].r)], other)

choices_from(correct_def, others) ==
    arranged(correct_def, others, IF Len(others) >= 3 THEN 3 ELSE max(0, Len(others)))

\* the option lists random.sample and random.shuffle can produce for a word:
\* the correct definition and k of the other non-empty definitions, any order
choice_lists(d, w) ==
    choices_from(def_of(rec_of(d, w)), other_defs(d, def_of(rec_of(d, w))))

\* choices.index(x) if x in choices else -1
index_or_minus1(choices, x) ==
    IF x \in Range(choices)
    THEN (CHOOSE i \in 1..Len(choices) :
              choices[i] = x /\ \A j \in 1..(i - 1) : choices[j] # x) - 1
    ELSE -1

\* st["c"] += 1 or st["w"] += 1 on the counter dict _stats(rec, mode)
bump_in(rec, mode, field) ==
    Put(rec, "stats",
        Dict(Put(rec.stats.v, mode,
                 Put(rec.stats.v[mode], field, rec.stats.v[mode][field] + 1))))

\* mutant: every answer is counted as wrong
bump_AlwaysWrong(rec, mode, field) == bump_in(_stats_setdefault(rec, mode), mode, "w")

bump(rec, mode, field) == bump_in(_stats_setdefault(rec, mode), mode, field)

\* the grading of one multiple-choice answer in _multiple_choice_session
grade_idx(choices, correct_def, idx) ==
    0 <= idx /\ idx < Len(choices) /\ idx = index_or_minus1(choices, correct_def)

grade_int(choices, correct_def, parsed) ==
    [raised |-> parsed.raised,
     correct |-> parsed.raised = "" /\ grade_idx(choices, correct_def, parsed.v - 1)]

grade_sel(choices, correct_def, sel) ==
    IF isdigit(sel) THEN grade_int(choices, correct_def, int(sel))
    ELSE [raised |-> "", correct |-> grade_idx(choices, correct_def, -1)]

mcq_grade(choices, correct_def, typed) == grade_sel(choices, correct_def, strip(typed))

\* what quiz_spelling prints for one answer
spelling_says(rec, w, ans) ==
    IF ~_is_sentence(rec)
    THEN IF levenshtein(lower(ans), lower(w)) = 0 THEN "Perfect"
         ELSE IF levenshtein(lower(ans), lower(w)) = 1 THEN "Almost"
         ELSE "Wrong"
    ELSE IF lower(strip(ans)) = lower(strip(w)) THEN "Perfect (exact match)"
         ELSE IF /\ _first_letter_signature(ans) = _first_letter_signature(w)
                 /\ ratio_ge(_lev_ratio(ans, w), sentence_threshold)
         THEN "Good enough"
         ELSE "Wrong"

\* mutant: a word one letter off is counted as correct
spelling_grade_AlmostCounts(rec, w, ans) ==
    IF ~_is_sentence(rec) THEN levenshtein(lower(ans), lower(w)) <= 1
    ELSE \/ lower(strip(ans)) = lower(strip(w))
         \/ /\ _first_letter_signature(ans) = _first_letter_signature(w)
            /\ ratio_ge(_lev_ratio(ans, w), sentence_threshold)

\* the grading of one spelling answer in quiz_spelling
spelling_grade(rec, w, ans) ==
    IF ~_is_sentence(rec) THEN levenshtein(lower(ans), lower(w)) = 0
    ELSE \/ lower(strip(ans)) = lower(strip(w))
         \/ /\ _first_letter_signature(ans) = _first_letter_signature(w)
            /\ ratio_ge(_lev_ratio(ans, w), sentence_threshold)

\* round(correct / total * 100, 1) if total else 0.0, in tenths of a percent
acc(total, correct) == IF total # 0 THEN (2000 * correct + total) \div (2 * total) ELSE 0

\* a _log_session that logs the number of correct answers as the total
log_entry_TotalIsCorrect(mode, total, correct, started, t) ==
    [mode |-> mode, total |-> correct, correct |-> correct, acc |-> acc(correct, correct),
     started_at |-> t, duration |-> t - started]

\* the line _log_session writes
log_entry(mode, total, correct, started, t) ==
    [mode |-> mode, total |-> total, correct |-> correct, acc |-> acc(total, correct),
     started_at |-> t, duration |-> t - started]

\* a log that loses what it held: the file opened for writing, not appending
append_Rewrites(log, entry) == <<entry>>

\* log_file.open("a") and one write: the entry goes after the lines the file
\* holds
append(log, entry) == Append(log, entry)

NoQuizCall ==
    [op |-> "none", typed |-> <<>>, choices |-> <<>>, target |-> <<>>,
     correct |-> FALSE, raised |-> "", graded |-> 0, done |-> FALSE]

QuizIdle ==
    /\ q_pc = "idle"
    /\ q_mode = ""
    /\ q_words = <<>>
    /\ q_i = 0
    /\ q_correct = 0
    /\ q_choices = <<>>
    /\ q_t0 = 0
    /\ q_sessions = 0
    /\ quiz_call = NoQuizCall

\* a session function is entered: load_db has run, the selection is made
session_opens(mode, L, P) ==
    /\ q_pc = "idle"
    /\ q_sessions < MaxSessions
    /\ wordsFile' = L.file
    /\ store_call' = [op |-> "load_db", saved |-> L.saved, raised |-> ""]
    /\ db' = P.db
    /\ q_words' = P.items
    /\ q_mode' = mode
    /\ q_correct' = 0
    /\ q_t0' = now
    /\ q_sessions' = q_sessions + 1
    /\ configured' = TRUE
    /\ fileExists' = TRUE
    /\ logExists' = (logExists \/ ~configured \/ ~fileExists)
    /\ IF P.items = <<>>
       THEN /\ q_pc' = "idle"
            /\ q_i' = 0
            /\ quiz_call' = [NoQuizCall EXCEPT !.op = "empty", !.done = TRUE]
       ELSE /\ q_pc' = "ask"
            /\ q_i' = 1
            /\ quiz_call' = [NoQuizCall EXCEPT !.op = "start"]
    /\ UNCHANGED <<logFile, now>>

\* quiz_random / quiz_wrong up to the first prompt: load, pick, and either
\* return on an empty selection or show the first question
mcq_opens(mode, L, P) ==
    /\ session_opens(mode, L, P)
    /\ IF P.items = <<>> THEN q_choices' = <<>>
       ELSE q_choices' \in choice_lists(P.db, P.items[1])

quiz_random_loaded(n, include_tags, exclude_tags, L) ==
    mcq_opens("choice", L,
              _pick_items_for_choice(L.db, n, include_tags, exclude_tags, TRUE))

quiz_random(n, include_tags, exclude_tags) ==
    quiz_random_loaded(n, include_tags, exclude_tags,
                       load_db(configured, fileExists, wordsFile, now))

quiz_wrong_loaded(n, include_tags, exclude_tags, L) ==
    mcq_opens("wrong", L,
              _pick_items_for_wrong(L.db, n, include_tags, exclude_tags, TRUE))

quiz_wrong(n, include_tags, exclude_tags) ==
    quiz_wrong_loaded(n, include_tags, exclude_tags,
                      load_db(configured, fileExists, wordsFile, now))

\* an exception leaves the session function: nothing is saved or logged
session_raises(call) ==
    /\ q_pc' = "idle"
    /\ q_choices' = <<>>
    /\ quiz_call' = [call EXCEPT !.graded = q_i - 1]
    /\ UNCHANGED <<db, q_i, q_correct, wordsFile, logFile, logExists, store_call>>

\* an item of the loop is graded and the loop goes on to the next item
session_goes_on(call, db1, cnt) ==
    /\ db' = db1
    /\ q_correct' = cnt
    /\ q_i' = q_i + 1
    /\ q_pc' = "ask"
    /\ quiz_call' = call
    /\ UNCHANGED <<wordsFile, logFile, logExists, store_call>>

\* the last item is graded: core.save_db(db), then _log_session
session_ends(call, db1, cnt) ==
    /\ db' = db1
    /\ q_correct' = cnt
    /\ q_i' = q_i
    /\ q_choices' = <<>>
    /\ q_pc' = "idle"
    /\ wordsFile' = db1
    /\ store_call' = [op |-> "save_db", saved |-> TRUE, raised |-> ""]
    /\ logFile' = append(logFile, log_entry(q_mode, Len(q_words), cnt, q_t0, now))
    /\ logExists' = TRUE
    /\ quiz_call' = [call EXCEPT !.done = TRUE]

mcq_graded(call, db1) ==
    IF call.raised # "" THEN session_raises(call)
    ELSE IF q_i < Len(q_words)
    THEN /\ session_goes_on(call, db1, q_correct + (IF call.correct THEN 1 ELSE 0))
         /\ q_choices' \in choice_lists(db1, q_words[q_i + 1])
    ELSE session_ends(call, db1, q_correct + (IF call.correct THEN 1 ELSE 0))

mcq_counted(rec, call) ==
    mcq_graded(call,
        set_rec(db, q_words[q_i], bump(rec, "choice", IF call.correct THEN "c" ELSE "w")))

mcq_call(typed, correct_def, g) ==
    [op |-> "grade", typed |-> typed, choices |-> q_choices, target |-> correct_def,
     correct |-> g.correct, raised |-> g.raised, graded |-> q_i, done |-> FALSE]

mcq_asked(typed, rec) ==
    mcq_counted(rec,
        mcq_call(typed, def_of(rec), mcq_grade(q_choices, def_of(rec), typed)))

\* one answer typed at "Your choice: ": graded, then the next question, or
\* after the last one save_db and _log_session
mcq_answer(typed) ==
    /\ q_pc = "ask"
    /\ q_mode \in {"choice", "wrong"}
    /\ mcq_asked(typed, rec_of(db, q_words[q_i]))
    /\ UNCHANGED <<configured, fileExists, now, q_mode, q_words, q_t0, q_sessions>>

\* quiz_spelling up to the first prompt
quiz_spelling_loaded(n, strategy, tags, L) ==
    /\ session_opens("spelling", L, _pick_items_for_spelling(L.db, n, strategy, tags))
    /\ q_choices' = <<>>

quiz_spelling(n, strategy, tags) ==
    quiz_spelling_loaded(n, strategy, tags,
                         load_db(configured, fileExists, wordsFile, now))

spelling_graded(call, db1) ==
    /\ IF q_i < Len(q_words)
       THEN session_goes_on(call, db1, q_correct + (IF call.correct THEN 1 ELSE 0))
       ELSE session_ends(call, db1, q_correct + (IF call.correct THEN 1 ELSE 0))
    /\ q_choices' = <<>>

spelling_counted(rec, call) ==
    spelling_graded(call,
        set_rec(db, q_words[q_i],
                bump(rec, "spelling", IF call.correct THEN "c" ELSE "w")))

spelling_call(typed, w, ok, said) ==
    [op |-> "grade", typed |-> typed, choices |-> <<>>, target |-> w,
     correct |-> ok, raised |-> "", graded |-> q_i, done |-> FALSE, said |-> said]

\* a prompt that replays on every empty line
spelling_asked_ReplaysAgain(typed, rec) ==
    IF strip(typed) = <<>>
    THEN /\ q_pc' = "replay"
         /\ quiz_call' = [NoQuizCall EXCEPT !.op = "replay", !.graded = q_i - 1,
                                            !.done = (q_pc = "replay")]
         /\ UNCHANGED <<db, q_i, q_correct, q_choices, wordsFile, logFile, logExists,
                        store_call>>
    ELSE spelling_counted(rec,
            spelling_call(typed, q_words[q_i],
                          spelling_grade(rec, q_words[q_i], strip(typed)),
                          spelling_says(rec, q_words[q_i], strip(typed))))

spelling_asked(typed, rec) ==
    IF q_pc = "ask" /\ strip(typed) = <<>>
    THEN /\ q_pc' = "replay"
         /\ quiz_call' = [NoQuizCall EXCEPT !.op = "replay", !.graded = q_i - 1]
         /\ UNCHANGED <<db, q_i, q_correct, q_choices, wordsFile, logFile, logExists,
                        store_call>>
    ELSE spelling_counted(rec,
            spelling_call(typed, q_words[q_i],
                          spelling_grade(rec, q_words[q_i], strip(typed)),
                          spelling_says(rec, q_words[q_i], strip(typed))))

\* one line typed in quiz_spelling: an empty first line replays the audio and
\* prompts again; any other line, and any second line, is graded
spelling_answer(typed) ==
    /\ q_pc \in {"ask", "replay"}
    /\ q_mode = "spelling"
    /\ spelling_asked(typed, rec_of(db, q_words[q_i]))
    /\ UNCHANGED <<configured, fileExists, now, q_mode, q_words, q_t0, q_sessions>>

\* KeyboardInterrupt at a prompt: the session function is left at once
quiz_abort ==
    /\ q_pc \in {"ask", "replay"}
    /\ q_pc' = "idle"
    /\ q_choices' = <<>>
    /\ quiz_call' = [NoQuizCall EXCEPT !.op = "abort", !.graded = q_i - 1]
    /\ UNCHANGED <<configured, fileExists, wordsFile, logExists, logFile, now, db,
                   store_call, q_mode, q_words, q_i, q_correct, q_t0, q_sessions>>

\* the clock advances while a question waits for its answer
quiz_clock ==
    /\ q_pc = "ask"
    /\ now < MaxNow
    /\ now' = now + 1
    /\ UNCHANGED <<configured, fileExists, wordsFile, logExists, logFile, db,
                   store_call, quizVars>>

-----------------------------------------------------------------------------
(* Quiz sessions of the package: the collections and inputs of the model *)

D1 == <<"a">>
D2 == <<"b">>
D3 == <<"c">>
Blank == <<" ">>

StatsOf(cc, cw, sw) ==
    [m \in {"choice", "recall", "spelling", "sentence"} |->
        IF m = "choice" THEN Counters(cc, cw)
        ELSE IF m = "spelling" THEN Counters(0, sw)
        ELSE Counters(0, 0)]

word_entry(tags, definition_en, stats) ==
    [tags |-> List(tags), examples |-> List(<<>>), definition_en |-> definition_en,
     stats |-> Dict(stats), added_at |-> 0]

\* the forms each word of Words can have in a stored collection: a fresh
\* word, one added by vocab.add_word (no sentence counter) or a word answered
\* right twice and misspelt once; a sentence or a word
\* answered wrong twice; a mastered word with a blank definition or a word
\* answered once right and once wrong and misspelt once
QuizShapes ==
    << {word_entry(<<>>, D1, StatsOf(0, 0, 0)),
        word_entry(<<>>, D1, [m \in {"choice", "recall", "spelling"} |-> Counters(0, 0)]),
        word_entry(<<>>, D1, StatsOf(2, 0, 1))},
       {word_entry(<<"sentence">>, D2, StatsOf(0, 0, 0)),
        word_entry(<<>>, D2, StatsOf(0, 2, 0))},
       {word_entry(<<>>, Blank, StatsOf(2, 0, 0)),
        word_entry(<<>>, D3, StatsOf(1, 1, 1)),
        word_entry(<<>>, D3, StatsOf(2, 0, 0))},
       {word_entry(<<>>, D1, StatsOf(0, 0, 0))} >>

collections(shapes) ==
    {[i \in 1..n |-> [k |-> Words[i], r |-> f[i]]] :
        n \in 0..MaxWords,
        f \in {g \in [1..MaxWords -> UNION Range(shapes)] :
                  \A i \in 1..MaxWords : g[i] \in shapes[i]}}

Ns == {1, 10}
TagArgs == {<<>>, <<"sentence">>}
Strategies == {"least", "hard"}
McqInputs ==
    {<<>>, <<"x">>, <<"0">>, <<"1">>, <<" ", "2">>, <<"3">>, <<"9">>, <<"sup2">>}
SpellingInputs ==
    {<<>>, <<"c", "a", "t">>, <<"C", "A", "T", " ">>, <<"c", "o", "t">>,
     <<"i", " ", "l", "i", "k", "e", " ", "t", "e", "a">>,
     <<"i", " ", "l", "i", "k", "e", " ", "t", "e", "e">>,
     <<"i", " ", "b", "i", "k", "e", " ", "t", "e", "a">>,
     <<"i", " ", " ", "l", "i", "k", "e", " ", " ", "t", "e", "a">>}

QuizInit ==
    /\ configured = FALSE
    /\ fileExists = TRUE
    /\ wordsFile \in collections(QuizShapes)
    /\ logExists = TRUE
    /\ logFile = <<>>
    /\ now = 1
    /\ db = <<>>
    /\ store_call = NoStoreCall
    /\ QuizIdle

QuizRandom ==
    /\ \E n \in Ns, ex \in TagArgs : quiz_random(n, <<>>, ex)
    /\ UNCHANGED <<schedVars, vocabVars, otherVars>>
QuizWrong ==
    /\ \E n \in Ns, ex \in TagArgs : quiz_wrong(n, <<>>, ex)
    /\ UNCHANGED <<schedVars, vocabVars, otherVars>>
McqAnswer ==
    /\ \E typed \in McqInputs : mcq_answer(typed)
    /\ UNCHANGED <<schedVars, vocabVars, otherVars>>
QuizSpelling ==
    /\ \E n \in Ns, s \in Strategies, tags \in TagArgs : quiz_spelling(n, s, tags)
    /\ UNCHANGED <<schedVars, vocabVars, otherVars>>
SpellingAnswer ==
    /\ \E typed \in SpellingInputs : spelling_answer(typed)
    /\ UNCHANGED <<schedVars, vocabVars, otherVars>>
QuizAbort ==
    /\ quiz_abort
    /\ UNCHANGED <<schedVars, vocabVars, otherVars>>
QuizClock ==
    /\ quiz_clock
    /\ UNCHANGED <<schedVars, vocabVars, otherVars>>

QuizNext ==
    \/ QuizRandom
    \/ QuizWrong
    \/ McqAnswer
    \/ QuizSpelling
    \/ SpellingAnswer
    \/ QuizAbort
    \/ QuizClock

-----------------------------------------------------------------------------
(* The single-file module (src/word_learning_scheduler.py): quiz sessions *)

\* a record as the single-file add_word writes it
sf_entry(definition_en, correct_cnt, wrong_cnt) ==
    [definition_en |-> definition_en, examples |-> List(<<>>), tags |-> List(<<>>),
     correct_cnt |-> correct_cnt, wrong_cnt |-> wrong_cnt, added_at |-> 0]

\* the orders in which n distinct words can be drawn from pool
arrangements(pool, n) ==
    {[i \in 1..n |-> pool[p[i]]] :
        p \in {q \in [1..n -> 1..Len(pool)] : \A i, j \in 1..n : q[i] = q[j] => i = j}}

sf_other_defs(target, d) ==
    LET other(e) == e.k # target
    IN [i \in 1..Len(SelectSeq(d, other)) |-> SelectSeq(d, other)[i].r.definition_en]

\* _get_choices: the target's definition and those of up to three other
\* words, any order
_get_choices(target, d) ==
    arranged(rec_of(d, target).definition_en, sf_other_defs(target, d),
             IF Len(d) - 1 < 3 THEN Len(d) - 1 ELSE 3)

\* choices[i] with a Python index: negative indices count from the end
py_index(choices, i) ==
    IF i >= Len(choices) \/ i < -Len(choices)
    THEN [raised |-> "IndexError", v |-> <<>>]
    ELSE [raised |-> "", v |-> choices[IF i >= 0 THEN i + 1 ELSE Len(choices) + i + 1]]

\* the grading expression of _ask_mcq
sf_picked(picked, definition_en) ==
    [raised |-> picked.raised,
     correct |-> picked.raised = "" /\ picked.v = definition_en]

sf_parsed(choices, definition_en, parsed) ==
    IF parsed.raised # "" THEN [raised |-> parsed.raised, correct |-> FALSE]
    ELSE sf_picked(py_index(choices, parsed.v - 1), definition_en)

sf_grade(choices, definition_en, ans) ==
    IF isdigit(ans) THEN sf_parsed(choices, definition_en, int(ans))
    ELSE [raised |-> "", correct |-> FALSE]

_ask_mcq(choices, definition_en, typed) == sf_grade(choices, definition_en, strip(typed))

\* the line the single-file _log_session writes
sf_log_session(q_cnt, correct, mode, t) ==
    [date |-> t, mode |-> mode, questions |-> q_cnt, correct |-> correct]

\* the single-file quiz_random / quiz_wrong up to the first prompt; pool is
\* the list the selection is drawn from
sf_session_opens(mode, n, d, pool) ==
    /\ q_pc = "idle"
    /\ q_sessions < MaxSessions
    /\ db' = d
    /\ IF pool = <<>>
       THEN /\ q_pc' = "idle"
            /\ q_words' = <<>>
            /\ q_i' = 0
            /\ q_choices' = <<>>
            /\ quiz_call' = [NoQuizCall EXCEPT !.op = "empty", !.done = TRUE]
       ELSE /\ q_pc' = "ask"
            /\ q_words' \in arrangements(pool, IF n < Len(pool) THEN n ELSE Len(pool))
            /\ q_i' = 1
            /\ q_choices' \in _get_choices(q_words'[1], d)
            /\ quiz_call' = [NoQuizCall EXCEPT !.op = "start"]
    /\ q_mode' = mode
    /\ q_correct' = 0
    /\ q_t0' = now
    /\ q_sessions' = q_sessions + 1
    /\ store_call' = [op |-> "load_db", saved |-> FALSE, raised |-> ""]
    /\ UNCHANGED <<configured, fileExists, wordsFile, logExists, logFile, now>>

sf_quiz_random(n) == sf_session_opens("random", n, wordsFile, Keys(wordsFile))

sf_quiz_wrong(n) ==
    LET wrong(w) == rec_of(wordsFile, w).wrong_cnt > 0
    IN sf_session_opens("wrong_only", n, wordsFile, SelectSeq(Keys(wordsFile), wrong))

\* _run_session after its loop: _log_session, then save_db
sf_session_ends(call, db1, cnt) ==
    /\ db' = db1
    /\ q_correct' = cnt
    /\ q_i' = q_i
    /\ q_choices' = <<>>
    /\ q_pc' = "idle"
    /\ logFile' = append(logFile, sf_log_session(Len(q_words), cnt, q_mode, now))
    /\ logExists' = TRUE
    /\ wordsFile' = db1
    /\ store_call' = [op |-> "save_db", saved |-> TRUE, raised |-> ""]
    /\ quiz_call' = [call EXCEPT !.done = TRUE]

sf_graded(call, db1) ==
    IF call.raised # "" THEN session_raises(call)
    ELSE IF q_i < Len(q_words)
    THEN /\ session_goes_on(call, db1, q_correct + (IF call.correct THEN 1 ELSE 0))
         /\ q_choices' \in _get_choices(q_words[q_i + 1], db1)
    ELSE sf_session_ends(call, db1, q_correct + (IF call.correct THEN 1 ELSE 0))

sf_counted(rec, call) ==
    sf_graded(call,
        set_rec(db, q_words[q_i],
                IF call.correct THEN [rec EXCEPT !.correct_cnt = @ + 1]
                ELSE [rec EXCEPT !.wrong_cnt = @ + 1]))

sf_asked(typed, rec) ==
    sf_counted(rec,
        mcq_call(typed, rec.definition_en, _ask_mcq(q_choices, rec.definition_en, typed)))

\* one answer typed at the prompt of _ask_mcq, and what _run_session does next
_run_session(typed) ==
    /\ q_pc = "ask"
    /\ sf_asked(typed, rec_of(db, q_words[q_i]))
    /\ UNCHANGED <<configured, fileExists, now, q_mode, q_words, q_t0, q_sessions>>

\* the forms each word of Words can have in a collection the single-file
\* module wrote
SfShapes ==
    << {sf_entry(D1, 0, 0)},
       {sf_entry(D2, 0, 1), sf_entry(D1, 0, 1)},
       {sf_entry(D3, 0, 0)},
       {sf_entry(D2, 1, 0)} >>

\* after setup_dirs, over a words.json written by the single-file module
SingleFileInit ==
    /\ configured = TRUE
    /\ fileExists = TRUE
    /\ wordsFile \in collections(SfShapes)
    /\ logExists \in BOOLEAN
    /\ logFile = <<>>
    /\ now = 1
    /\ db = <<>>
    /\ store_call = NoStoreCall
    /\ QuizIdle

SfQuizRandom ==
    /\ \E n \in Ns : sf_quiz_random(n)
    /\ UNCHANGED <<schedVars, vocabVars, otherVars>>
SfQuizWrong ==
    /\ \E n \in Ns : sf_quiz_wrong(n)
    /\ UNCHANGED <<schedVars, vocabVars, otherVars>>
SfAnswer ==
    /\ \E typed \in McqInputs : _run_session(typed)
    /\ UNCHANGED <<schedVars, vocabVars, otherVars>>
SfAbort ==
    /\ quiz_abort
    /\ UNCHANGED <<schedVars, vocabVars, otherVars>>
SfClock ==
    /\ quiz_clock
    /\ UNCHANGED <<schedVars, vocabVars, otherVars>>

SingleFileNext ==
    \/ SfQuizRandom
    \/ SfQuizWrong
    \/ SfAnswer
    \/ SfAbort
    \/ SfClock

\* a fresh process of the single-file module, before setup_dirs, over the
\* files earlier runs left (or none)
SfStoreInit ==
    /\ configured = FALSE
    /\ fileExists \in BOOLEAN
    /\ wordsFile \in collections(SfShapes)
    /\ ~fileExists => wordsFile = <<>>
    /\ logExists \in BOOLEAN
    /\ logFile = <<>>
    /\ now = 1
    /\ db = <<>>
    /\ store_call = NoStoreCall

SfStoreNext ==
    \/ SfSetupDirs
    \/ SfLoadDb
    \/ Clock

-----------------------------------------------------------------------------
(* Vocabulary: the audio cache (src/Word_learning/utils.py) *)

Whitespace == {" "}
Punctuation == {".", ",", ";", ":", "!", "?"}

\* re.sub(r"\s+", " ", text.strip())
RECURSIVE collapse(_)
collapse(s) ==
    IF s = <<>> THEN <<>>
    ELSE IF Head(s) \in Whitespace /\ Tail(s) # <<>> /\ Head(Tail(s)) \in Whitespace
    THEN collapse(Tail(s))
    ELSE <<IF Head(s) \in Whitespace THEN " " ELSE Head(s)>> \o collapse(Tail(s))

_norm_sentence(text) == collapse(strip(text))

\* len(text.split()) > 1 or a punctuation mark in the text
_is_sentence_text(text) ==
    \/ \E i \in 1..Len(strip(text)) : strip(text)[i] \in Whitespace
    \/ \E i \in 1..Len(text) : text[i] \in Punctuation

slug_char(c) == c \in AsciiLower \cup AsciiDigits \cup {"_", "-"}

\* re.sub(r"[^a-z0-9_-]+", "_", ...): each run of other characters becomes
\* one underscore
RECURSIVE slug_runs(_)
slug_runs(s) ==
    IF s = <<>> THEN <<>>
    ELSE IF slug_char(Head(s)) THEN <<Head(s)>> \o slug_runs(Tail(s))
    ELSE IF Tail(s) # <<>> /\ ~slug_char(Head(Tail(s))) THEN slug_runs(Tail(s))
    ELSE <<"_">> \o slug_runs(Tail(s))

slug_or_word(slug) == IF slug = <<>> THEN <<"w", "o", "r", "d">> ELSE slug

_slug_word(text) == slug_or_word(slug_runs(lower(strip(text))))

\* the cache file of a text; the sha1 of the normalised sentence is taken to
\* be one-to-one, so the normalised sentence stands for it
_tts_cache_path(text, is_sentence) ==
    IF is_sentence
    THEN [dir |-> "sentences_audio", name |-> _norm_sentence(text)]
    ELSE [dir |-> "words_audio", name |-> _slug_word(text)]

\* speak: the files of the cache afterwards; tts is FALSE when gTTS is not
\* installed or the synthesis fails
speak(files, text, tts) ==
    IF tts THEN files \cup {_tts_cache_path(text, _is_sentence_text(text))} ELSE files

\* the single-file module's cache file of a word
_word_mp3_path(word) == [dir |-> "words_audio", name |-> lower(word)]

_ensure_word_audio(files, word, tts) ==
    IF tts THEN files \cup {_word_mp3_path(word)} ELSE files

-----------------------------------------------------------------------------
(* Vocabulary: add, search, edit, delete (src/Word_learning/vocab.py and
   src/word_learning_scheduler.py) *)

\* word in db; del db[word]; db[word] = rec (a new key goes last)
contains(d, key) == \E i \in 1..Len(d) : d[i].k = key
delitem(d, key) == SelectSeq(d, LAMBDA e : e.k # key)
setitem(d, key, rec) ==
    IF contains(d, key) THEN set_rec(d, key, rec) ELSE Append(d, [k |-> key, r |-> rec])

\* an optional argument: None, or a text or list
Some(x) == [kind |-> "some", v |-> x]
truthy(o) == o # Null /\ o.v # <<>>

NoVocabCall ==
    [op |-> "none", impl |-> "", word |-> <<>>, definition_en |-> <<>>,
     examples |-> <<>>, tags |-> <<>>, purge_audio |-> FALSE, limit |-> 0,
     existed |-> FALSE, raised |-> FALSE, message |-> FALSE, out |-> <<>>]

VocabIdle ==
    /\ audio = {}
    /\ vocab_n = 0
    /\ vocab_call = NoVocabCall

\* mutant: add_word that writes a fresh record over an existing key
new_word_Overwrites(d, word, definition_en, examples, tags, t) ==
    setitem(d, word,
            [definition_en |-> definition_en, examples |-> List(examples),
             tags |-> List(tags),
             stats |-> Dict([m \in {"choice", "recall", "spelling"} |-> Counters(0, 0)]),
             added_at |-> t])

\* vocab.add_word on the loaded collection: a record is written only when
\* the key is not there
new_word(d, word, definition_en, examples, tags, t) ==
    IF contains(d, word) THEN d
    ELSE setitem(d, word,
                 [definition_en |-> definition_en, examples |-> List(examples),
                  tags |-> List(tags),
                  stats |-> Dict([m \in {"choice", "recall", "spelling"} |-> Counters(0, 0)]),
                  added_at |-> t])

\* what every vocabulary call leaves: the file, the collection in memory and
\* the record of the call
vocab_done(call, after, files) ==
    /\ wordsFile' = after
    /\ db' = after
    /\ audio' = files
    /\ vocab_n' = vocab_n + 1
    /\ vocab_call' = [call EXCEPT !.existed = contains(wordsFile, call.word)]
    /\ configured' = TRUE
    /\ fileExists' = TRUE
    /\ logExists' = (logExists \/ ~configured \/ ~fileExists)
    /\ store_call' = NoStoreCall
    /\ UNCHANGED <<now, logFile>>

add_word(word, definition_en, examples, tags, tts) ==
    vocab_done([NoVocabCall EXCEPT !.op = "add_word", !.impl = "package", !.word = word,
                                   !.definition_en = definition_en,
                                   !.examples = examples, !.tags = tags],
               new_word(load_db(configured, fileExists, wordsFile, now).db,
                        word, definition_en, examples, tags, now),
               speak(audio, word, tts))

\* vocab.search_word: prints the record or "Not found"
search_word(word) ==
    vocab_done([NoVocabCall EXCEPT !.op = "search_word", !.impl = "package",
                                   !.word = word, !.message = TRUE],
               load_db(configured, fileExists, wordsFile, now).file,
               audio)

\* vocab.delete_word: nothing is printed for a key that is not there
delete_word(word) ==
    vocab_done([NoVocabCall EXCEPT !.op = "delete_word", !.impl = "package",
                                   !.word = word,
                                   !.message = contains(wordsFile, word)],
               IF contains(wordsFile, word)
               THEN delitem(load_db(configured, fileExists, wordsFile, now).db, word)
               ELSE load_db(configured, fileExists, wordsFile, now).file,
               audio)

edited_definition(rec, definition_en) ==
    IF truthy(definition_en) THEN Put(rec, "definition_en", definition_en.v) ELSE rec
edited_tags(rec, tags) ==
    IF tags # Null THEN Put(rec, "tags", List(tags.v)) ELSE rec
edited(d, word, definition_en, tags) ==
    set_rec(d, word, edited_tags(edited_definition(rec_of(d, word), definition_en), tags))

\* vocab.edit_word
edit_word(word, definition_en, tags) ==
    vocab_done([NoVocabCall EXCEPT !.op = "edit_word", !.impl = "package", !.word = word,
                                   !.definition_en = definition_en, !.tags = tags,
                                   !.message = TRUE],
               IF contains(wordsFile, word)
               THEN edited(load_db(configured, fileExists, wordsFile, now).db,
                           word, definition_en, tags)
               ELSE load_db(configured, fileExists, wordsFile, now).file,
               audio)

\* the single-file add_word: db.get(word, a fresh entry), then the
\* definition, and the examples and tags when they are not empty
sf_get_entry(d, word, t) ==
    IF contains(d, word) THEN rec_of(d, word)
    ELSE [definition_en |-> <<>>, examples |-> List(<<>>), tags |-> List(<<>>),
          correct_cnt |-> 0, wrong_cnt |-> 0, added_at |-> t]
sf_with_examples(entry, examples) ==
    IF examples # <<>> THEN Put(entry, "examples", List(examples)) ELSE entry
sf_with_tags(entry, tags) ==
    IF tags # <<>> THEN Put(entry, "tags", List(tags)) ELSE entry
sf_upsert(d, word, definition_en, examples, tags, t) ==
    setitem(d, word,
            sf_with_tags(sf_with_examples(Put(sf_get_entry(d, word, t),
                                              "definition_en", definition_en),
                                          examples),
                         tags))

sf_add_word(word, definition_en, examples, tags, tts) ==
    vocab_done([NoVocabCall EXCEPT !.op = "add_word", !.impl = "single-file",
                                   !.word = word, !.definition_en = definition_en,
                                   !.examples = examples, !.tags = tags],
               sf_upsert(wordsFile, word, definition_en, examples, tags, now),
               _ensure_word_audio(audio, word, tts))

\* the single-file search_word: shows the entry when there is one, returns
\* it or None
sf_search_word(word) ==
    vocab_done([NoVocabCall EXCEPT !.op = "search_word", !.impl = "single-file",
                                   !.word = word,
                                   !.message = contains(wordsFile, word)],
               wordsFile, audio)

sf_edited_definition(rec, definition_en) ==
    IF definition_en # Null THEN Put(rec, "definition_en", definition_en.v) ELSE rec
sf_edited(d, word, definition_en, tags) ==
    set_rec(d, word, edited_tags(sf_edited_definition(rec_of(d, word), definition_en), tags))

\* the single-file edit_word: KeyError for a key that is not there
sf_edit_word(word, definition_en, tags) ==
    vocab_done([NoVocabCall EXCEPT !.op = "edit_word", !.impl = "single-file",
                                   !.word = word, !.definition_en = definition_en,
                                   !.tags = tags,
                                   !.raised = ~contains(wordsFile, word)],
               IF contains(wordsFile, word)
               THEN sf_edited(wordsFile, word, definition_en, tags)
               ELSE wordsFile,
               audio)

\* the single-file delete_word: the audio goes only with purge_audio
sf_delete_word(word, purge_audio) ==
    vocab_done([NoVocabCall EXCEPT !.op = "delete_word", !.impl = "single-file",
                                   !.word = word, !.purge_audio = purge_audio],
               delitem(wordsFile, word),
               IF contains(wordsFile, word) /\ purge_audio
               THEN audio \ {_word_mp3_path(word)}
               ELSE audio)

-----------------------------------------------------------------------------
(* Vocabulary: the session log read back (src/Word_learning/quiz.py) *)

\* text.strip().split("\n"): one line per entry; the empty text splits into
\* one empty line
split_lines(log) ==
    IF log = <<>> THEN <<[empty |-> TRUE]>>
    ELSE [i \in 1..Len(log) |-> [empty |-> FALSE, j |-> log[i]]]

\* lines[-limit:]: -0 is 0, so limit 0 keeps every line
last_lines(lines, limit) ==
    IF limit = 0 \/ limit >= Len(lines) THEN lines
    ELSE SubSeq(lines, Len(lines) - limit + 1, Len(lines))

\* lines[::-1]
reversed(s) == [i \in 1..Len(s) |-> s[Len(s) + 1 - i]]

\* a line of the log that is not JSON: what a write cut short leaves
NotJson == [not_json |-> TRUE]

\* json.loads(ln) raises on an empty line and on a line that is not JSON
loads_raises(ln) == ln.empty \/ Has(ln.j, "not_json")

\* the loop of show_sessions: there is no try around json.loads, so the
\* first line it raises on ends the call; the entries printed before that
RECURSIVE printed(_)
printed(lines) ==
    IF lines = <<>> \/ loads_raises(Head(lines)) THEN <<>>
    ELSE <<Head(lines).j>> \o printed(Tail(lines))

read_back(lines) ==
    [raised |-> \E i \in 1..Len(lines) : loads_raises(lines[i]), out |-> printed(lines)]

show_sessions(log, limit) ==
    read_back(reversed(last_lines(split_lines(log), limit)))

\* a show_sessions call; core.setup_dirs runs first, so the log file is there
show_sessions_call(limit) ==
    /\ vocab_call' = [NoVocabCall EXCEPT !.op = "show_sessions", !.impl = "package",
                                         !.limit = limit,
                                         !.raised = show_sessions(logFile, limit).raised,
                                         !.out = show_sessions(logFile, limit).out]
    /\ configured' = TRUE
    /\ fileExists' = TRUE
    /\ logExists' = TRUE
    /\ store_call' = NoStoreCall
    /\ vocab_n' = vocab_n + 1
    /\ UNCHANGED <<wordsFile, logFile, now, db, audio>>

-----------------------------------------------------------------------------
(* Vocabulary: the calls a user makes between sessions *)

MaxVocabCalls == 2
MaxLimit == 3

VocabWords == {Words[1], Words[2]}
ExampleLists == {<<>>, <<"x">>}
TagLists2 == {<<>>, <<"sentence">>}
OptionalDefinitions == {Null, Some(<<>>), Some(D3)}
OptionalTags == {Null, Some(<<>>), Some(<<"sentence">>)}

\* a call is made while no session is at a prompt; the calls and sessions of
\* one behaviour are MaxVocabCalls at most
between_sessions == q_pc = "idle" /\ vocab_n + q_sessions < MaxVocabCalls

AddWord ==
    /\ between_sessions
    /\ \E word \in VocabWords, examples \in ExampleLists, tags \in TagLists2,
          tts \in BOOLEAN : add_word(word, D2, examples, tags, tts)
    /\ UNCHANGED <<schedVars, quizVars, otherVars>>
SearchWord ==
    /\ between_sessions
    /\ \E word \in VocabWords : search_word(word)
    /\ UNCHANGED <<schedVars, quizVars, otherVars>>
DeleteWord ==
    /\ between_sessions
    /\ \E word \in VocabWords : delete_word(word)
    /\ UNCHANGED <<schedVars, quizVars, otherVars>>
EditWord ==
    /\ between_sessions
    /\ \E word \in VocabWords, definition_en \in OptionalDefinitions,
          tags \in OptionalTags : edit_word(word, definition_en, tags)
    /\ UNCHANGED <<schedVars, quizVars, otherVars>>
SfAddWord ==
    /\ between_sessions
    /\ \E word \in VocabWords, examples \in ExampleLists, tags \in TagLists2,
          tts \in BOOLEAN : sf_add_word(word, D2, examples, tags, tts)
    /\ UNCHANGED <<schedVars, quizVars, otherVars>>
SfSearchWord ==
    /\ between_sessions
    /\ \E word \in VocabWords : sf_search_word(word)
    /\ UNCHANGED <<schedVars, quizVars, otherVars>>
SfEditWord ==
    /\ between_sessions
    /\ \E word \in VocabWords, definition_en \in OptionalDefinitions,
          tags \in OptionalTags : sf_edit_word(word, definition_en, tags)
    /\ UNCHANGED <<schedVars, quizVars, otherVars>>
SfDeleteWord ==
    /\ between_sessions
    /\ \E word \in VocabWords, purge_audio \in BOOLEAN : sf_delete_word(word, purge_audio)
    /\ UNCHANGED <<schedVars, quizVars, otherVars>>
ShowSessions ==
    /\ between_sessions
    /\ \E limit \in 0..MaxLimit : show_sessions_call(limit)
    /\ UNCHANGED <<schedVars, quizVars, otherVars>>

\* the sessions between the calls: over the whole collection, with the
\* first or the second option picked, the word typed right or one letter off
SessionRandom ==
    /\ between_sessions
    /\ quiz_random(10, <<>>, <<>>)
    /\ UNCHANGED <<schedVars, vocabVars, otherVars>>
SessionSpelling ==
    /\ between_sessions
    /\ quiz_spelling(10, "least", <<>>)
    /\ UNCHANGED <<schedVars, vocabVars, otherVars>>
SessionMcqAnswer ==
    /\ \E typed \in {<<"1">>, <<"2">>} : mcq_answer(typed)
    /\ UNCHANGED <<schedVars, vocabVars, otherVars>>
SessionSpellingAnswer ==
    /\ \E typed \in {<<"c", "a", "t">>, <<"c", "o", "t">>} : spelling_answer(typed)
    /\ UNCHANGED <<schedVars, vocabVars, otherVars>>
Reload ==
    /\ q_pc = "idle"
    /\ load_db_call
    /\ UNCHANGED <<schedVars, quizVars, vocabVars, otherVars>>

\* the collections the vocabulary starts from: none, a word of the current
\* schema with its audio cached, a record of an older form
LegacyRec == [definition_en |-> D1, tags |-> Null, stats |-> Null, added_at |-> 0]

VocabCollections ==
    { <<>>,
      <<[k |-> Words[1], r |-> word_entry(<<>>, D1, StatsOf(0, 2, 0))]>>,
      <<[k |-> Words[1], r |-> LegacyRec]>> }

VocabInit ==
    /\ configured = TRUE
    /\ fileExists = TRUE
    /\ wordsFile \in VocabCollections
    /\ logExists = TRUE
    /\ logFile \in {<<>>, <<log_entry("random", 2, 1, 0, 0)>>, <<NotJson>>}
    /\ now = 1
    /\ db = <<>>
    /\ store_call = NoStoreCall
    /\ audio = {_tts_cache_path(wordsFile[i].k, FALSE) : i \in 1..Len(wordsFile)}
    /\ vocab_n = 0
    /\ vocab_call = NoVocabCall

VocabNext ==
    \/ AddWord
    \/ SearchWord
    \/ DeleteWord
    \/ EditWord
    \/ SfAddWord
    \/ SfSearchWord
    \/ SfEditWord
    \/ SfDeleteWord
    \/ ShowSessions
    \/ Reload
    \/ SessionRandom
    \/ SessionSpelling
    \/ SessionMcqAnswer
    \/ SessionSpellingAnswer
    \/ QuizAbort

-----------------------------------------------------------------------------
(* Processes sharing words.json: each runs vocab.add_word, which is
   load_db, then the change in memory, then save_db and speak; the steps of
   two processes interleave (src/Word_learning/vocab.py,
   src/Word_learning/core.py) *)

Writers == {1, 2}

IdleWriter == [pc |-> "start", db |-> <<>>, word |-> <<>>, saves_seen |-> 0, added |-> FALSE]

WritersIdle == writers = [p \in Writers |-> IdleWriter]

\* a store that keeps the stored keys the written collection lacks
save_db_Merges(file, d) ==
    d \o SelectSeq(file, LAMBDA e : ~contains(d, e.k))

\* core.save_db(db): write_text of the whole collection over the file
save_db(file, d) == d

\* the saves made so far by the processes
saves_done == Cardinality({q \in Writers : writers[q].pc = "saved"})

\* db = load_db() in process p
writer_load(p) ==
    /\ writers[p].pc = "start"
    /\ writers' = [writers EXCEPT ![p] =
                      [IdleWriter EXCEPT
                         !.pc = "loaded",
                         !.db = load_db(configured, fileExists, wordsFile, now).db,
                         !.saves_seen = saves_done]]
    /\ wordsFile' = load_db(configured, fileExists, wordsFile, now).file
    /\ configured' = TRUE
    /\ fileExists' = TRUE
    /\ logExists' = (logExists \/ ~configured \/ ~fileExists)
    /\ UNCHANGED <<logFile, now, db, store_call>>

\* if word not in db: db[word] = {...}, in the memory of process p
writer_mutate(p, word, definition_en) ==
    /\ writers[p].pc = "loaded"
    /\ writers' = [writers EXCEPT ![p] =
                      [@ EXCEPT !.pc = "mutated",
                                !.db = new_word(writers[p].db, word, definition_en,
                                                <<>>, <<>>, now),
                                !.word = word,
                                !.added = ~contains(writers[p].db, word)]]
    /\ UNCHANGED storeVars

\* save_db(db), then speak(word), in process p
writer_save(p, tts) ==
    /\ writers[p].pc = "mutated"
    /\ wordsFile' = save_db(wordsFile, writers[p].db)
    /\ audio' = speak(audio, writers[p].word, tts)
    /\ writers' = [writers EXCEPT ![p].pc = "saved"]
    /\ UNCHANGED <<configured, fileExists, logExists, logFile, now, db, store_call,
                   vocab_n, vocab_call>>

WriterLoad ==
    /\ \E p \in Writers : writer_load(p)
    /\ UNCHANGED <<schedVars, quizVars, vocabVars, text_call>>
WriterMutate ==
    /\ \E p \in Writers, word \in VocabWords, definition_en \in {D1, D2} :
          writer_mutate(p, word, definition_en)
    /\ UNCHANGED <<schedVars, quizVars, vocabVars, text_call>>
WriterSave ==
    /\ \E p \in Writers, tts \in BOOLEAN : writer_save(p, tts)
    /\ UNCHANGED <<schedVars, quizVars, text_call>>
WriterClock ==
    /\ clock
    /\ UNCHANGED <<schedVars, quizVars, vocabVars, otherVars>>

WritersInit ==
    /\ configured = TRUE
    /\ fileExists = TRUE
    /\ wordsFile \in VocabCollections
    /\ logExists = TRUE
    /\ logFile = <<>>
    /\ now = 1
    /\ db = <<>>
    /\ store_call = NoStoreCall
    /\ audio = {}
    /\ vocab_n = 0
    /\ vocab_call = NoVocabCall
    /\ writers = [p \in Writers |-> IdleWriter]
    /\ text_call = NoTextCall

WritersNext ==
    \/ WriterLoad
    \/ WriterMutate
    \/ WriterSave
    \/ WriterClock

-----------------------------------------------------------------------------
(* Text functions called on their own *)

Levenshtein ==
    /\ levenshtein_call
    /\ UNCHANGED <<schedVars, storeVars, quizVars, vocabVars, writers>>

TextNext == Levenshtein

OtherIdle == WritersIdle /\ text_call = NoTextCall

-----------------------------------------------------------------------------
(* Specifications *)

SchedIdle ==
    /\ today = 0
    /\ active = <<>>
    /\ completed = <<>>
    /\ activeFile = <<>>
    /\ doneFile = <<>>
    /\ nextId = 1
    /\ sched_call = NoCall
    /\ due = <<>>
    /\ saving = FALSE

\* the scheduler
Init == SchedInit /\ StoreIdle /\ QuizIdle /\ VocabIdle /\ OtherIdle
Spec == Init /\ [][SchedNext]_vars

\* the scheduler with save as two writes and the process stopping
SpecSave == Init /\ [][SaveNext]_vars

\* the word store of the package
InitStore == StoreInit /\ SchedIdle /\ QuizIdle /\ VocabIdle /\ OtherIdle
SpecStore == InitStore /\ [][StoreNext]_vars

\* the quiz sessions of the package
InitQuiz == QuizInit /\ SchedIdle /\ VocabIdle /\ OtherIdle
SpecQuiz == InitQuiz /\ [][QuizNext]_vars

\* the quiz sessions of the single-file module
InitSingleFile == SingleFileInit /\ SchedIdle /\ VocabIdle /\ OtherIdle
SpecSingleFile == InitSingleFile /\ [][SingleFileNext]_vars

\* the vocabulary calls, the sessions of the package between them
InitVocab == VocabInit /\ SchedIdle /\ QuizIdle /\ OtherIdle
SpecVocab == InitVocab /\ [][VocabNext]_vars

\* the word store over records that lack schema fields
InitSchema == SchemaInit /\ SchedIdle /\ QuizIdle /\ VocabIdle /\ OtherIdle
SpecSchema == InitSchema /\ [][StoreNext]_vars

\* the store of the single-file module
InitSfStore == SfStoreInit /\ SchedIdle /\ QuizIdle /\ VocabIdle /\ OtherIdle
SpecSfStore == InitSfStore /\ [][SfStoreNext]_vars

\* the text functions on every pair of short strings
InitText == TextInit /\ SchedIdle /\ StoreIdle /\ QuizIdle /\ VocabIdle /\ WritersIdle
SpecText == InitText /\ [][TextNext]_vars

\* two processes adding words to the same store
InitWriters == WritersInit /\ SchedIdle /\ QuizIdle
SpecWriters == InitWriters /\ [][WritersNext]_vars

-----------------------------------------------------------------------------
(* Scheduler: the claims *)

AllItems(act, com) == act \o com
ItemOf(act, com, id) ==
    LET s == AllItems(act, com)
    IN s[CHOOSE k \in 1..Len(s) : s[k].id = id]
HasItem(s, id) == \E k \in 1..Len(s) : s[k].id = id
Statuses(it) == [k \in 1..Len(it.history) |-> it.history[k].status]

\* the last operation was a review_item call that item.review accepted
Reviewed == sched_call.op = "review_item" /\ sched_call.raised # "status"
ReviewedActive == Reviewed /\ sched_call.pool = "active"

\* C2: after review_item on an active item with an accepted mark, the item
\* is in the completed pool if and only if the status the review recorded is
\* O and the memory_count after the review is 3.
C2_PromotedIffOAndThree ==
    ReviewedActive =>
        LET it == ItemOf(active, completed, sched_call.id)
        IN HasItem(completed, sched_call.id)
               <=> (it.status = "O" /\ it.memory_count = 3)

\* C3: an accepted review changes memory_count by the rule of the mark: O
\* gives min(memory_count + 1, 3), X gives 0, Delta leaves it; memory_count
\* of every item stays in 0..3.
C3_MemoryCountRule ==
    /\ [][(sched_call'.op = "review_item" /\ sched_call'.raised # "status") =>
            LET before == ItemOf(active, completed, sched_call'.id)
                after == ItemOf(active', completed', sched_call'.id)
            IN /\ after.status \in {"O", "X", "Delta"}
               /\ after.status = "O" =>
                      after.memory_count = min(before.memory_count + 1, 3)
               /\ after.status = "X" => after.memory_count = 0
               /\ after.status = "Delta" =>
                      after.memory_count = before.memory_count]_vars
    /\ [](\A k \in 1..Len(AllItems(active, completed)) :
            AllItems(active, completed)[k].memory_count \in 0..3)

\* an O review of an item that already had memory_count 3 (the cap applies)
C3_Witness ==
    /\ Reviewed
    /\ LET it == ItemOf(active, completed, sched_call.id)
       IN /\ Statuses(it) = <<"O", "O", "O", "O">>
          /\ it.memory_count = 3

\* C4: after every accepted review performed on date d, next_review_date is
\* d + INTERVALS[m] with m the memory_count after that review.
C4_NextReviewDate ==
    Reviewed =>
        LET it == ItemOf(active, completed, sched_call.id)
        IN /\ it.last_review_date = today
           /\ it.next_review_date =
                  today + (CASE it.memory_count = 0 -> 1
                             [] it.memory_count = 1 -> 3
                             [] it.memory_count = 2 -> 7
                             [] it.memory_count = 3 -> 30)

\* X after memory_count 2, on day 1: back to 0 and due the next day
C4_Witness ==
    /\ Reviewed
    /\ today = 1
    /\ LET it == ItemOf(active, completed, sched_call.id)
       IN /\ Statuses(it) = <<"O", "O", "X">>
          /\ it.memory_count = 0
          /\ it.next_review_date = 2

\* C8: the list get_due_items returns is sorted by next_review_date
\* ascending, then memory_count ascending, and among items equal on both the
\* items whose status is X come before the others.
C8_SortedXFirst ==
    sched_call.op = "get_due_items" =>
        \A i \in 1..Len(due), j \in 1..Len(due) :
            i < j =>
                \/ due[i].next_review_date < due[j].next_review_date
                \/ /\ due[i].next_review_date = due[j].next_review_date
                   /\ due[i].memory_count < due[j].memory_count
                \/ /\ due[i].next_review_date = due[j].next_review_date
                   /\ due[i].memory_count = due[j].memory_count
                   /\ (due[j].status = "X" => due[i].status = "X")

\* C9: get_due_items(on, tag_filter) returns exactly the active items with
\* next_review_date <= on whose tags meet a non-empty filter without regard
\* to case, never an item of the completed pool, and writes nothing.
Wanted(it, on, f) ==
    /\ it.next_review_date <= on
    /\ f # <<>> => \E a \in 1..Len(it.tags), b \in 1..Len(f) :
                       Lower(it.tags[a]) = Lower(f[b])

C9_DueExactly ==
    /\ [](\A on \in 0..MaxOn, f \in TagFilters :
            LET r == get_due_items(active, on, f)
            IN /\ {r[k] : k \in 1..Len(r)}
                    = {active[k] : k \in {n \in 1..Len(active) : Wanted(active[n], on, f)}}
               /\ Len(r) = Cardinality({n \in 1..Len(active) : Wanted(active[n], on, f)})
               /\ \A k \in 1..Len(r) : ~HasItem(completed, r[k].id))
    /\ [][sched_call'.op = "get_due_items" =>
            /\ UNCHANGED <<active, completed, activeFile, doneFile>>
            /\ \E on \in 0..MaxOn, f \in TagFilters :
                   due' = get_due_items(active, on, f)]_vars

\* two active items due on the same day, one untagged and one tagged "ML";
\* the call returned only the tagged one (the filter was "ml")
C9_Witness ==
    /\ sched_call.op = "get_due_items"
    /\ Len(active) = 2
    /\ active[1].next_review_date = active[2].next_review_date
    /\ active[1].tags = <<>>
    /\ active[2].tags = <<"ML">>
    /\ due = <<active[2]>>

\* C10: a review whose mark is none of O, Delta, X after upper-casing
\* changes nothing: no field of any item, neither pool, neither file.
C10_RejectedChangesNothing ==
    [][(sched_call'.op = "review_item" /\ sched_call'.raised = "status") =>
          UNCHANGED <<active, completed, activeFile, doneFile>>]_vars

\* a rejected review of an item that has been reviewed before
C10_Witness ==
    /\ sched_call.op = "review_item"
    /\ sched_call.raised = "status"
    /\ Len(ItemOf(active, completed, sched_call.id).history) >= 2

Ids(pool) == {pool[i].id : i \in 1..Len(pool)}

\* C11: once an item is in the completed pool it stays there: no add_item,
\* review_item, save or load step takes it out of the completed pool or puts
\* it into the active pool, in memory or in the files.
C11_CompletedStays ==
    [][/\ Ids(completed) \subseteq Ids(completed')
       /\ Ids(completed) \cap Ids(active') = {}
       /\ Ids(doneFile) \subseteq Ids(doneFile')
       /\ Ids(doneFile) \cap Ids(activeFile') = {}]_vars

\* a completed item has been reviewed again with a passing mark, and the
\* files have been read back after it
C11_Witness ==
    /\ sched_call.op = "review_item"
    /\ sched_call.pool = "completed"
    /\ sched_call.raised = "remove"
    /\ Len(active) >= 1

\* C28: an item add_item has returned for is in learning_items.json or in
\* completed_items.json at every later point, the point between the two
\* writes of save included, so that a process stopping there loses no item.
C28_ItemAlwaysInAFile ==
    \A id \in 1..(nextId - 1) : id \in Ids(activeFile) \cup Ids(doneFile)

\* the step is a review_item call whose mark item.review accepted
accepts_review == sched_call'.op = "review_item" /\ sched_call'.raised # "status"

\* the history of the item id in the pools
history_of(act, com, id) == ItemOf(act, com, id).history

\* C32: an accepted review appends exactly one {date, status} entry to the
\* history of the item and leaves the earlier entries, and the histories of
\* the other items, as they were; no other call changes a history; the last
\* entry of a history has the status and the last_review_date of its item.
\* So a history is as long as the accepted reviews its item has had.
C32_HistoryAppendOnly ==
    /\ [][accepts_review =>
            /\ history_of(active', completed', sched_call'.id)
                 = Append(history_of(active, completed, sched_call'.id),
                          [date |-> today,
                           status |-> ItemOf(active', completed', sched_call'.id).status])
            /\ \A id \in Ids(active) \cup Ids(completed) :
                   id # sched_call'.id =>
                       history_of(active', completed', id) = history_of(active, completed, id)]_vars
    /\ [][(~accepts_review /\ sched_call'.op # "load") =>
            \A id \in Ids(active) \cup Ids(completed) :
                history_of(active', completed', id) = history_of(active, completed, id)]_vars
    /\ [](\A k \in 1..Len(AllItems(active, completed)) :
            AllItems(active, completed)[k].history # <<>> =>
                /\ AllItems(active, completed)[k].history[
                        Len(AllItems(active, completed)[k].history)].status
                      = AllItems(active, completed)[k].status
                /\ AllItems(active, completed)[k].history[
                        Len(AllItems(active, completed)[k].history)].date
                      = AllItems(active, completed)[k].last_review_date)

\* an item reviewed three times with three different marks, on two days
C32_Witness ==
    /\ Reviewed
    /\ today = 1
    /\ Statuses(ItemOf(active, completed, sched_call.id)) = <<"O", "Delta", "X">>
    /\ ItemOf(active, completed, sched_call.id).history[1].date = 0
    /\ ItemOf(active, completed, sched_call.id).history[3].date = 1

\* how many places of the pool hold the item id
places(pool, id) == Cardinality({k \in 1..Len(pool) : pool[k].id = id})

\* C33: after any add_item and review_item calls, every item add_item
\* created is in exactly one of the pools active and completed, once: not in
\* both and not in neither, also after a review_item call that raised.
C33_InExactlyOnePool ==
    \A id \in 1..(nextId - 1) : places(active, id) + places(completed, id) = 1

\* one item promoted and another still active, after a review_item call on
\* the promoted item raised out of active.remove
C33_Witness ==
    /\ sched_call.op = "review_item"
    /\ sched_call.raised = "remove"
    /\ nextId = 3
    /\ places(completed, sched_call.id) = 1
    /\ places(active, sched_call.id) = 0
    /\ places(active, 3 - sched_call.id) = 1

\* a call that created an item or reviewed one (the mark was accepted)
adds_or_reviews ==
    \/ sched_call'.op = "add_item"
    \/ sched_call'.op = "review_item" /\ sched_call'.raised # "status"

\* C34: every item's next_review_date is strictly later than its
\* last_review_date, from its creation on and after every accepted review;
\* so get_due_items(d), with any tag filter, does not return an item that was
\* added or last reviewed on d, and the item a call has just added or
\* reviewed is not among the items due on the day of the call: a review pass
\* over the items due that day meets each item once.
C34_NextAfterLast ==
    /\ [](\A k \in 1..Len(AllItems(active, completed)) :
            AllItems(active, completed)[k].next_review_date
                > AllItems(active, completed)[k].last_review_date)
    /\ [](\A k \in 1..Len(active), f \in TagFilters :
            ~HasItem(get_due_items(active, active[k].last_review_date, f), active[k].id))
    /\ [][adds_or_reviews =>
            /\ ItemOf(active', completed', sched_call'.id).last_review_date = today
            /\ ItemOf(active', completed', sched_call'.id).next_review_date > today
            /\ \A f \in TagFilters :
                   ~HasItem(get_due_items(active', today, f), sched_call'.id)]_vars

\* the review pass of day 1 took the first of two items that were due and
\* marked it X: it stays active and is no longer due, the other one still is
C34_Witness ==
    /\ ReviewedActive
    /\ today = 1
    /\ Len(active) = 2
    /\ sched_call.id = active[1].id
    /\ active[1].status = "X"
    /\ Len(active[1].history) = 1
    /\ active[1].last_review_date = 1
    /\ active[1].next_review_date = 2
    /\ get_due_items(active, today, <<>>) = <<active[2]>>

\* C27: after any add_item and review_item calls, with any accepted mark on
\* any item of either pool, every item of the completed pool has
\* memory_count 3 and status O.
C27_CompletedAreMastered ==
    \A i \in 1..Len(completed) :
        completed[i].memory_count = 3 /\ completed[i].status = "O"

-----------------------------------------------------------------------------
(* Word store: the claims *)

Normalized(rec) ==
    /\ Has(rec, "tags") /\ rec.tags.kind = "list"
    /\ Has(rec, "examples")
    /\ Has(rec, "definition_en")
    /\ Has(rec, "stats") /\ rec.stats.kind = "dict"
    /\ \A m \in {"choice", "recall", "spelling", "sentence"} :
           /\ Has(rec.stats.v, m)
           /\ Has(rec.stats.v[m], "c")
           /\ Has(rec.stats.v[m], "w")
    /\ Has(rec, "added_at")

\* C1: after load_db returns, every record of the returned collection is
\* fully normalized, whatever the stored collection was.
C1_LoadedIsNormalized ==
    store_call.op = "load_db" => \A i \in 1..Len(db) : Normalized(db[i].r)

\* every record of the stored collection x is of the current schema
AlreadyNormalized(x) ==
    \A i \in 1..Len(x) : Normalized(x[i].r) /\ x[i].r.examples.kind # "null"

\* C23: on an already-normalized stored collection x, load_db returns x and
\* writes nothing, and load_db after save_db of what was loaded returns x
\* again: the clean round trip leaves the stored collection as it was.
C23_CleanRoundTrip ==
    [][(store_call'.op = "load_db" /\ fileExists /\ AlreadyNormalized(wordsFile)) =>
          /\ db' = wordsFile
          /\ ~store_call'.saved
          /\ wordsFile' = wordsFile
          /\ load_db(TRUE, TRUE, save_db(wordsFile', db'), now').db = wordsFile
          /\ load_db(TRUE, TRUE, save_db(wordsFile', db'), now').file = wordsFile]_vars

\* a clean load of a stored collection of two records or more, made after
\* the clock moved on from the records' added_at
C23_Witness ==
    /\ store_call = [op |-> "load_db", saved |-> FALSE, raised |-> ""]
    /\ fileExists
    /\ AlreadyNormalized(wordsFile)
    /\ Len(wordsFile) >= 2
    /\ db = wordsFile
    /\ now > 1

\* C25: load_db called while there is no words file, also before any
\* setup_dirs call, creates the empty stored collection, returns the empty
\* collection and does not raise.
C25_LoadBootstraps ==
    [][(store_call'.op = "load_db" /\ ~fileExists) =>
          /\ store_call'.raised = ""
          /\ fileExists'
          /\ wordsFile' = <<>>
          /\ db' = <<>>]_vars

SchemaFields == {"tags", "examples", "definition_en", "stats", "added_at"}
missing(rec) == {f \in SchemaFields : ~Has(rec, f)}
default(f, t) ==
    CASE f = "tags" -> List(<<>>)
      [] f = "examples" -> List(<<>>)
      [] f = "definition_en" -> <<>>
      [] f = "stats" -> Dict(FullStats)
      [] f = "added_at" -> t

\* the step loads a stored collection of one record that lacks fields
loads_lacking ==
    /\ store_call'.op = "load_db"
    /\ fileExists
    /\ Len(wordsFile) = 1
    /\ missing(wordsFile[1].r) # {}

\* C24: _ensure_schema on a record lacking some of tags, examples,
\* definition_en, stats and added_at returns True and leaves all five
\* there, the missing ones at their defaults ([], [], "", zeroed counters
\* of every mode, the current time) and the others as they were; applied
\* again to its result, also at a later time, it returns False and changes
\* nothing.
C24_EnsureSchemaFillsOnce ==
    [][loads_lacking =>
          /\ _ensure_schema(wordsFile[1].r, now).changed
          /\ _ensure_schema(wordsFile[1].r, now).rec = db'[1].r
          /\ store_call'.saved
          /\ \A f \in SchemaFields : Has(db'[1].r, f)
          /\ \A f \in missing(wordsFile[1].r) : db'[1].r[f] = default(f, now)
          /\ \A f \in SchemaFields \ missing(wordsFile[1].r) :
                 db'[1].r[f] = wordsFile[1].r[f]
          /\ _ensure_schema(db'[1].r, now + 1) = [rec |-> db'[1].r, changed |-> FALSE]]_vars

\* a record that lacked all five fields, loaded after the clock moved on
C24_Witness ==
    /\ store_call = [op |-> "load_db", saved |-> TRUE, raised |-> ""]
    /\ Len(db) = 1
    /\ \A f \in SchemaFields : Has(db[1].r, f) /\ db[1].r[f] = default(f, 2)
    /\ wordsFile = db

\* the values present in record r are the same in record e: the fields other
\* than tags, examples and stats whatever they hold, a tags list, examples
\* that are not null, and every counter of every mode of a stats dict
keeps(r, e) ==
    /\ \A f \in DOMAIN r \ {"tags", "examples", "stats"} : Has(e, f) /\ e[f] = r[f]
    /\ (Has(r, "tags") /\ r.tags.kind = "list") => (Has(e, "tags") /\ e.tags = r.tags)
    /\ (Has(r, "examples") /\ r.examples.kind # "null") =>
           (Has(e, "examples") /\ e.examples = r.examples)
    /\ (Has(r, "stats") /\ r.stats.kind = "dict") =>
           /\ Has(e, "stats") /\ e.stats.kind = "dict"
           /\ \A m \in DOMAIN r.stats.v :
                  /\ Has(e.stats.v, m)
                  /\ \A x \in DOMAIN r.stats.v[m] :
                         Has(e.stats.v[m], x) /\ e.stats.v[m][x] = r.stats.v[m][x]

\* C35: _ensure_schema only fills gaps: every value the record held before
\* the call (the c and w counts of any mode, definition_en, examples, a tags
\* list, added_at) is the same after it, at whatever time the call is made;
\* so every record load_db returns holds the values of the stored record.
C35_EnsureSchemaKeepsValues ==
    [][(store_call'.op = "load_db" /\ fileExists) =>
          \A i \in 1..Len(wordsFile) :
              /\ keeps(wordsFile[i].r, _ensure_schema(wordsFile[i].r, now).rec)
              /\ Len(db') = Len(wordsFile)
              /\ db'[i].k = wordsFile[i].k
              /\ keeps(wordsFile[i].r, db'[i].r)]_vars

\* a load at time 2 normalized a record that had a choice counter of c = 2
\* and no w, examples and an added_at of 0: the count, the examples and the
\* added_at are as stored, and the gaps around them are filled
C35_Witness ==
    /\ store_call = [op |-> "load_db", saved |-> TRUE, raised |-> ""]
    /\ now = 2
    /\ Len(db) >= 1
    /\ db[1].r.stats.kind = "dict"
    /\ db[1].r.stats.v["choice"] = Counters(2, 0)
    /\ db[1].r.stats.v["sentence"] = Counters(0, 0)
    /\ db[1].r.examples = List(<<"x">>)
    /\ db[1].r.added_at = 0

-----------------------------------------------------------------------------
(* Text: the claims *)

\* the strings one insertion, deletion or substitution away from s
edits_of(s) ==
    {SubSeq(s, 1, i - 1) \o SubSeq(s, i + 1, Len(s)) : i \in 1..Len(s)}
    \cup {[s EXCEPT ![i] = c] : i \in 1..Len(s), c \in Alphabet}
    \cup {SubSeq(s, 1, i) \o <<c>> \o SubSeq(s, i + 1, Len(s)) :
             i \in 0..Len(s), c \in Alphabet}

\* the strings at most k edits away from a string of S
RECURSIVE within(_, _)
within(S, k) ==
    IF k = 0 THEN S ELSE within(S \cup UNION {edits_of(s) : s \in S}, k - 1)

\* the least number of edits that turn a into b
edit_distance(a, b) ==
    CHOOSE k \in 0..(Len(a) + Len(b)) :
        /\ b \in within({a}, k)
        /\ \A j \in 0..(k - 1) : b \notin within({a}, j)

\* C26: levenshtein(a, b) is the least number of single-character
\* insertions, deletions and substitutions that turn a into b; it is the
\* same for (b, a), it is 0 for (a, a) and it is at most the greater length.
C26_LevenshteinIsEditDistance ==
    text_call.op = "levenshtein" =>
       /\ text_call.out = edit_distance(text_call.a, text_call.b)
       /\ text_call.out = levenshtein(text_call.b, text_call.a)
       /\ levenshtein(text_call.a, text_call.a) = 0
       /\ text_call.out <= max(Len(text_call.a), Len(text_call.b))

\* a call on a shorter and a longer string that need a deletion and a
\* substitution
C26_Witness ==
    /\ text_call.op = "levenshtein"
    /\ Len(text_call.a) = 2
    /\ Len(text_call.b) = 3
    /\ text_call.out = 2

-----------------------------------------------------------------------------
(* Vocabulary: the claims *)

\* the step is a call of op; the call was made with a key that was there
Calls(op) == vocab_n' # vocab_n /\ vocab_call'.op = op
OnExisting(op) == vocab_call.op = op /\ vocab_call.existed

\* C12: add_word is an upsert: after add_word with a key that was already
\* in the collection, the stored record's definition, examples and tags are
\* the values passed to the call.
C12_AddWordUpserts ==
    [][(Calls("add_word") /\ vocab_call'.existed) =>
          /\ contains(wordsFile', vocab_call'.word)
          /\ get(rec_of(wordsFile', vocab_call'.word), "definition_en", <<>>)
                 = vocab_call'.definition_en
          /\ get(rec_of(wordsFile', vocab_call'.word), "examples", Null)
                 = List(vocab_call'.examples)
          /\ get(rec_of(wordsFile', vocab_call'.word), "tags", Null)
                 = List(vocab_call'.tags)]_vars

\* the counter x of a word under a mode, 0 when it is not there
counter(d, w, mode, x) == get(get(stats_or_empty(rec_of(d, w)), mode, EmptyDict), x, 0)

\* every stats counter of the key k reads the same in d and e
same_stats(d, e, k) ==
    /\ \A mode \in {"choice", "recall", "spelling", "sentence"} : \A x \in {"c", "w"} :
           counter(d, k, mode, x) = counter(e, k, mode, x)
    /\ \A x \in {"correct_cnt", "wrong_cnt"} :
           get(rec_of(d, k), x, 0) = get(rec_of(e, k), x, 0)

\* the key k has the added_at in e that it has in d
same_added_at(d, e, k) ==
    Has(rec_of(d, k), "added_at") =>
        /\ Has(rec_of(e, k), "added_at")
        /\ rec_of(e, k).added_at = rec_of(d, k).added_at

\* C13: a key of the stored collection that is still there after an
\* add_word, an edit_word, a graded answer or a load has the added_at it had
\* before, and after an add_word or an edit_word it has every stats counter
\* it had before.
C13_AddedAtAndStatsKept ==
    [][\A i \in 1..Len(wordsFile) :
          contains(wordsFile', wordsFile[i].k) =>
              /\ same_added_at(wordsFile, wordsFile', wordsFile[i].k)
              /\ (Calls("add_word") \/ Calls("edit_word")) =>
                     same_stats(wordsFile, wordsFile', wordsFile[i].k)]_vars

\* add_word has been called with the key of a word that has been answered
\* wrong twice
C13_Witness ==
    /\ OnExisting("add_word")
    /\ vocab_call.impl = "package"
    /\ store_call = NoStoreCall
    /\ q_sessions = 0
    /\ counter(wordsFile, vocab_call.word, "choice", "w") = 2

\* the cache file speak made for a text
cached_audio(text) == _tts_cache_path(text, _is_sentence_text(text))

\* C14: after delete_word on a key that was in the collection, the stored
\* collection has no record under the key and the audio cache has no file
\* for that text.
C14_DeleteRemovesRecordAndAudio ==
    [][(Calls("delete_word") /\ vocab_call'.existed) =>
          /\ ~contains(wordsFile', vocab_call'.word)
          /\ cached_audio(vocab_call'.word) \notin audio'
          /\ _word_mp3_path(vocab_call'.word) \notin audio']_vars

\* C15: search_word, edit_word and delete_word with a key that is not in
\* the collection raise no exception, print a message and leave every record
\* of the stored collection as it was.
C15_AbsentKeyIsNoOp ==
    [][(/\ Calls("search_word") \/ Calls("edit_word") \/ Calls("delete_word")
        /\ ~vocab_call'.existed) =>
          /\ ~vocab_call'.raised
          /\ vocab_call'.message
          /\ wordsFile' = wordsFile]_vars

\* the last n entries of the log, the most recent first
\* process p makes the later of the two saves, both loads having come
\* before either save
saves_last(p, q) ==
    /\ p # q
    /\ writers[p].pc = "mutated"
    /\ writers'[p].pc = "saved"
    /\ writers[q].pc = "saved"
    /\ writers[p].saves_seen = 0
    /\ writers[q].saves_seen = 0

\* C22: save_db overwrites the whole collection and merges nothing: when two
\* load-mutate-save sequences interleave with both loads before either save,
\* the stored collection after the later save is the collection passed to
\* it, and a key only the earlier writer added is not in it.
C22_LastSaveWins ==
    [][\A p, q \in Writers :
          saves_last(p, q) =>
             /\ wordsFile' = writers[p].db
             /\ (writers[q].added /\ writers[q].word # writers[p].word)
                   => ~contains(wordsFile', writers[q].word)]_vars

\* both processes have saved after loading the same store, each added a key
\* of its own, and the store holds only the key of the second process
C22_Witness ==
    /\ \A p \in Writers : /\ writers[p].pc = "saved"
                           /\ writers[p].saves_seen = 0
                           /\ writers[p].added
    /\ writers[1].word # writers[2].word
    /\ contains(wordsFile, writers[2].word)
    /\ ~contains(wordsFile, writers[1].word)
    /\ wordsFile = writers[2].db

\* the lines of a are the first lines of b
is_prefix(a, b) == Len(a) <= Len(b) /\ SubSeq(b, 1, Len(a)) = a

\* C21: the session log is append-only: over sessions, reloads (setup_dirs)
\* and show_sessions calls, every step leaves the earlier log as a prefix of
\* the later one, and the step that ends a session (_log_session) adds
\* exactly one entry at the tail.
C21_LogIsAppendOnly ==
    [][/\ is_prefix(logFile, logFile')
       /\ (q_pc # "idle" /\ q_pc' = "idle" /\ quiz_call'.done)
             => /\ Len(logFile') = Len(logFile) + 1
                /\ SubSeq(logFile', 1, Len(logFile)) = logFile]_vars

\* a session logged after an earlier entry, and the log then read back
C21_Witness ==
    /\ Len(logFile) = 2
    /\ q_sessions = 1
    /\ quiz_call.done
    /\ vocab_call.op = "show_sessions"
    /\ Len(vocab_call.out) = 2

\* the entries among the lines
well_formed_of(lines) == SelectSeq(lines, LAMBDA ln : ~Has(ln, "not_json"))

\* C30: when the log holds a malformed line, show_sessions(limit) skips it,
\* reads back the well-formed entries among the last limit lines, the most
\* recent first, and does not raise.
C30_MalformedLinesSkipped ==
    [][(/\ vocab_n' # vocab_n
        /\ vocab_call'.op = "show_sessions"
        /\ vocab_call'.limit >= 1
        /\ \E i \in 1..Len(logFile) : Has(logFile[i], "not_json")) =>
          /\ ~vocab_call'.raised
          /\ vocab_call'.out
                = well_formed_of([i \in 1..(IF vocab_call'.limit < Len(logFile)
                                            THEN vocab_call'.limit ELSE Len(logFile)) |->
                                     logFile[Len(logFile) + 1 - i]])]_vars

most_recent(log, n) == [i \in 1..min(n, Len(log)) |-> log[Len(log) + 1 - i]]

\* C20: show_sessions(limit) reads back min(limit, number of log entries)
\* entries, the most recent first, for every limit >= 0 and every log, the
\* empty log included, and does not raise.
C20_ShowsMostRecent ==
    [][(Calls("show_sessions") /\ well_formed_of(logFile) = logFile) =>
          /\ ~vocab_call'.raised
          /\ vocab_call'.out = most_recent(logFile, vocab_call'.limit)]_vars

-----------------------------------------------------------------------------
(* Quiz sessions: the claims *)

session_key == IF q_mode = "spelling" THEN "spelling" ELSE "choice"

\* C5: when a session is aborted after k >= 1 items have been graded, the
\* stored collection holds the counter updates of those k items.
C5_AbortKeepsGraded ==
    (quiz_call.op = "abort" /\ quiz_call.graded >= 1) =>
        \A j \in 1..quiz_call.graded : \A x \in {"c", "w"} :
            counter(wordsFile, q_words[j], session_key, x)
                = counter(db, q_words[j], session_key, x)

\* the typed input is the 1-based index of an option holding the definition
IsIndexOfCorrect(typed, choices, target) ==
    /\ strip(typed) # <<>>
    /\ \A i \in 1..Len(strip(typed)) : strip(typed)[i] \in AsciiDigits
    /\ decimal(strip(typed)) \in 1..Len(choices)
    /\ choices[decimal(strip(typed))] = target

\* C6: a multiple-choice answer is graded correct if and only if the typed
\* input is the 1-based index of the option holding the correct definition,
\* and grading never raises.
C6_GradedByIndex ==
    (quiz_call.op = "grade" /\ q_mode # "spelling") =>
        /\ quiz_call.raised = ""
        /\ quiz_call.correct
              <=> IsIndexOfCorrect(quiz_call.typed, quiz_call.choices, quiz_call.target)

\* the options hold the correct definition once and n distractors that are
\* not empty, not the correct definition and pairwise distinct
well_formed(choices, correct_def, n) ==
    /\ Len(choices) = 1 + n
    /\ Cardinality({i \in 1..Len(choices) : choices[i] = correct_def}) = 1
    /\ \A i \in 1..Len(choices) : choices[i] # <<>>
    /\ \A i, j \in 1..Len(choices) : choices[i] = choices[j] => i = j

\* C29: the options shown for a quizzed word hold its correct definition
\* exactly once and min(3, size of the distractor pool) distractors, which
\* are pairwise distinct, not empty and not the correct definition, also
\* when two other records have the same definition text.
C29_OptionsWellFormed ==
    q_pc = "ask" =>
        well_formed(q_choices, rec_of(db, q_words[q_i]).definition_en,
                    min(3, Len(db) - 1))

RECURSIVE sum_over(_, _, _)
sum_over(words, d1, d0) ==
    IF words = <<>> THEN 0
    ELSE counter(d1, Head(words), session_key, "c")
           - counter(d0, Head(words), session_key, "c")
           + sum_over(Tail(words), d1, d0)

same_counters(d0, d1) ==
    /\ Keys(d0) = Keys(d1)
    /\ \A i \in 1..Len(d0) : \A m \in Range(_REQUIRED_MODES) : \A x \in {"c", "w"} :
           counter(d0, d0[i].k, m, x) = counter(d1, d0[i].k, m, x)

\* the step that grades the last item of the selection
grades_last == q_pc # "idle" /\ quiz_call'.done
\* the step of a session function whose selection is empty
selects_nothing == q_pc = "idle" /\ quiz_call'.op = "empty"

\* C7: the step that grades the last item of a non-empty selection saves the
\* collection and appends exactly one log entry whose total is the number of
\* selected words and whose correct is the number of items graded correct
\* (the growth of the c counters since the collection was loaded); no other
\* step writes the log; a session over an empty selection returns without
\* raising, logging or changing a counter.
C7_FinalizeSavesAndLogsOnce ==
    [][/\ grades_last =>
            /\ q_words # <<>>
            /\ wordsFile' = db'
            /\ logFile' = Append(logFile, logFile'[Len(logFile')])
            /\ logFile'[Len(logFile')].total = Len(q_words)
            /\ logFile'[Len(logFile')].correct = sum_over(q_words, db', wordsFile)
            /\ logFile'[Len(logFile')].correct \in 0..Len(q_words)
       /\ ~grades_last => logFile' = logFile
       /\ selects_nothing =>
            /\ quiz_call'.raised = ""
            /\ q_pc' = "idle"
            /\ same_counters(wordsFile, wordsFile')
            /\ same_counters(wordsFile, db')]_vars

\* a session of three words, two of them graded correct, has been logged
C7_Witness ==
    /\ quiz_call.done /\ quiz_call.op = "grade"
    /\ Len(logFile) = 1
    /\ logFile[1].total = 3
    /\ logFile[1].correct = 2

\* a session over an empty selection has returned
C7_WitnessEmpty == quiz_call.op = "empty" /\ wordsFile # <<>>

\* the keys of d that quiz_wrong may ask: they pass the tag filters, have a
\* definition that is not blank, and their choice counter has c < w + 2
eligible(d, include, exclude) ==
    {d[i].k : i \in {j \in 1..Len(d) :
        /\ include # <<>> => Range(include) \cap Range(tags_of(d[j].r)) # {}
        /\ exclude # <<>> => Range(exclude) \cap Range(tags_of(d[j].r)) = {}
        /\ \E p \in 1..Len(def_of(d[j].r)) : def_of(d[j].r)[p] # " "
        /\ counter(d, d[j].k, "choice", "c") < counter(d, d[j].k, "choice", "w") + 2}}

\* got holds the first min(n, number of eligible keys) keys of the eligible
\* keys in an order of non-increasing wrong count
wrong_first(d, got, n, include, exclude) ==
    /\ Len(got) = min(n, Cardinality(eligible(d, include, exclude)))
    /\ Range(got) \subseteq eligible(d, include, exclude)
    /\ \A i, j \in 1..Len(got) : i < j =>
           /\ got[i] # got[j]
           /\ counter(d, got[i], "choice", "w") >= counter(d, got[j], "choice", "w")
    /\ \A k \in eligible(d, include, exclude) \ Range(got) : \A i \in 1..Len(got) :
           counter(d, got[i], "choice", "w") >= counter(d, k, "choice", "w")

\* the step that opens a quiz_wrong session
opens_wrong == q_pc = "idle" /\ q_sessions' # q_sessions /\ q_mode' = "wrong"

\* C16: _pick_items_for_wrong(db, n, ...) returns the first min(n, number of
\* eligible keys) keys of the eligible keys ordered by non-increasing choice
\* wrong count, a key being eligible exactly when it passes the tag filters,
\* has a definition and has choice c < w + 2; a quiz_wrong session asks such
\* a list and never a key with c >= w + 2.
C16_WrongPicksWeakestFirst ==
    [][opens_wrong =>
          /\ \A n \in Ns, ex \in TagArgs, inc \in TagArgs :
                 wrong_first(db', _pick_items_for_wrong(db', n, inc, ex, TRUE).items,
                             n, inc, ex)
          /\ \E n \in Ns, ex \in TagArgs : wrong_first(db', q_words', n, <<>>, ex)
          /\ \A i \in 1..Len(q_words') :
                 counter(db', q_words'[i], "choice", "c")
                     < counter(db', q_words'[i], "choice", "w") + 2]_vars

\* a quiz_wrong session has opened over a collection that holds a word with
\* a definition and c = w + 2, and a word it asks
C16_Witness ==
    /\ q_mode = "wrong"
    /\ q_pc = "ask"
    /\ q_i = 1
    /\ \E i \in 1..Len(db) :
           /\ counter(db, db[i].k, "choice", "c") = counter(db, db[i].k, "choice", "w") + 2
           /\ def_of(db[i].r) = D3
    /\ Len(q_words) = 2

\* the keys of d that pass the tag filters and, when a definition is
\* required, have a definition that is not blank
passing(d, include, exclude, require_def) ==
    {d[i].k : i \in {j \in 1..Len(d) :
        /\ include # <<>> => Range(include) \cap Range(tags_of(d[j].r)) # {}
        /\ exclude # <<>> => Range(exclude) \cap Range(tags_of(d[j].r)) = {}
        /\ require_def => \E p \in 1..Len(def_of(d[j].r)) : def_of(d[j].r)[p] # " "}}

\* key a does not come after key b: a smaller c + w of the mode's counter,
\* or the same c + w and no smaller wrong count
not_after(d, mode, a, b) ==
    \/ counter(d, a, mode, "c") + counter(d, a, mode, "w")
          < counter(d, b, mode, "c") + counter(d, b, mode, "w")
    \/ /\ counter(d, a, mode, "c") + counter(d, a, mode, "w")
            = counter(d, b, mode, "c") + counter(d, b, mode, "w")
       /\ counter(d, a, mode, "w") >= counter(d, b, mode, "w")

\* got holds the first min(n, number of keys of among) keys of among, in an
\* order of ascending c + w, keys of the same c + w by descending wrong count
least_first(d, got, n, mode, among) ==
    /\ Len(got) = min(n, Cardinality(among))
    /\ Range(got) \subseteq among
    /\ \A i, j \in 1..Len(got) : i < j =>
           got[i] # got[j] /\ not_after(d, mode, got[i], got[j])
    /\ \A k \in among \ Range(got) : \A i \in 1..Len(got) :
           not_after(d, mode, got[i], k)

\* the step that opens a quiz_random session
opens_choice == q_pc = "idle" /\ q_sessions' # q_sessions /\ q_mode' = "choice"

\* the step that opens a quiz_spelling session
opens_spelling == q_pc = "idle" /\ q_sessions' # q_sessions /\ q_mode' = "spelling"

\* C36: _pick_items_for_choice, and _pick_items_for_spelling with strategy
\* 'least', return the first min(n, number of eligible keys) eligible keys
\* in the order of ascending c + w of the choice, respectively spelling,
\* counter, keys of equal c + w by descending wrong count; the eligible keys
\* are those that pass the tag filters and, for _pick_items_for_choice with
\* require_def, have a definition that is not blank.  This holds on the
\* collection as any session leaves it, and the words a quiz_random or a
\* quiz_spelling session asks are such a list (of the 'hard' order or of
\* this one, for spelling).
C36_LeastPracticedFirst ==
    /\ [](q_pc = "idle" =>
            \A n \in Ns, inc \in TagArgs, ex \in TagArgs, rd \in BOOLEAN :
                least_first(db, _pick_items_for_choice(db, n, inc, ex, rd).items,
                            n, "choice", passing(db, inc, ex, rd)))
    /\ [](q_pc = "idle" =>
            \A n \in Ns, tags \in TagArgs :
                least_first(db, _pick_items_for_spelling(db, n, "least", tags).items,
                            n, "spelling", passing(db, tags, <<>>, FALSE)))
    /\ [][opens_choice =>
            \E n \in Ns, ex \in TagArgs :
                least_first(db', q_words', n, "choice", passing(db', <<>>, ex, TRUE))]_vars
    /\ [][opens_spelling =>
            \E n \in Ns, tags \in TagArgs :
                \/ least_first(db', q_words', n, "spelling", passing(db', tags, <<>>, FALSE))
                \/ q_words' = _pick_items_for_spelling(db', n, "hard", tags).items]_vars

\* a quiz_random session has opened over three words: the first was answered
\* right twice, the second wrong twice, the third has a blank definition; the
\* session asks the second word, then the first, and not the third
C36_Witness ==
    /\ q_mode = "choice"
    /\ q_pc = "ask"
    /\ q_i = 1
    /\ Len(db) = 3
    /\ counter(db, Words[1], "choice", "c") = 2
    /\ counter(db, Words[2], "choice", "w") = 2
    /\ def_of(rec_of(db, Words[3])) = Blank
    /\ q_words = <<Words[2], Words[1]>>

\* a spelling session has ended and the order of least spelling practice
\* now differs from the order of the collection: the word just spelt comes
\* after a word not yet spelt
C36_WitnessSpelling ==
    /\ q_mode = "spelling"
    /\ q_pc = "idle"
    /\ quiz_call.op = "grade"
    /\ Len(db) >= 2
    /\ counter(db, Words[1], "spelling", "c") = 1
    /\ counter(db, Words[2], "spelling", "c") + counter(db, Words[2], "spelling", "w") = 0
    /\ _pick_items_for_spelling(db, 1, "least", <<>>).items = <<Words[2]>>

\* the tag lists a caller may pass as include or exclude
FilterArgs == {<<>>, <<"sentence">>, <<"x">>, <<"x", "sentence">>}

\* the tags of the record of key w meet the list l
meets(d, w, l) == \E a \in 1..Len(tags_of(rec_of(d, w))), b \in 1..Len(l) :
                      tags_of(rec_of(d, w))[a] = l[b]

\* the keys of d the two filters let through
let_through(d, include, exclude) ==
    {w \in Range(Keys(d)) :
        /\ include # <<>> => meets(d, w, include)
        /\ exclude # <<>> => ~meets(d, w, exclude)}

\* the keys of d with exclude applied first and include second
exclude_then_include(d, include, exclude) ==
    LET want(w) == include # <<>> => meets(d, w, include)
        free(w) == exclude # <<>> => ~meets(d, w, exclude)
    IN SelectSeq(SelectSeq(Keys(d), free), want)

\* the step that opens a session of any mode
opens_session == q_pc = "idle" /\ q_sessions' # q_sessions

\* C37: _filter_by_tags(db, include, exclude) returns exactly the keys whose
\* tags meet include (when include is not empty) and do not meet exclude
\* (when exclude is not empty), each once; applying exclude first and
\* include second gives the same list; and every word a session asks is one
\* of the keys its filters let through.
C37_FilterByTags ==
    /\ [](q_pc = "idle" =>
            \A inc \in FilterArgs, ex \in FilterArgs :
                /\ Range(_filter_by_tags(db, inc, ex)) = let_through(db, inc, ex)
                /\ Len(_filter_by_tags(db, inc, ex)) = Cardinality(let_through(db, inc, ex))
                /\ _filter_by_tags(db, inc, ex) = exclude_then_include(db, inc, ex))
    /\ [][opens_session =>
            \E inc \in TagArgs, ex \in TagArgs :
                /\ inc = <<>> \/ ex = <<>>
                /\ Range(q_words') \subseteq let_through(db', inc, ex)
                /\ (q_mode' = "spelling" /\ Len(q_words') > 1) =>
                       Range(q_words') = let_through(db', inc, ex)]_vars

\* a quiz_random session that excludes the tag "sentence" has opened over
\* three words with definitions, the second tagged "sentence": it asks the
\* first and the third, and including the tag instead gives the second
C37_Witness ==
    /\ q_mode = "choice"
    /\ q_pc = "ask"
    /\ q_i = 1
    /\ Len(db) = 3
    /\ tags_of(rec_of(db, Words[2])) = <<"sentence">>
    /\ Range(q_words) = {Words[1], Words[3]}
    /\ _filter_by_tags(db, <<>>, <<"sentence">>) = <<Words[1], Words[3]>>
    /\ _filter_by_tags(db, <<"sentence">>, <<>>) = <<Words[2]>>
    /\ _filter_by_tags(db, <<"x", "sentence">>, <<"sentence">>) = <<>>

\* c + w over every mode of every record of d
RECURSIVE total_counts(_)
total_counts(d) ==
    IF d = <<>> THEN 0
    ELSE counter(d, Head(d).k, "choice", "c") + counter(d, Head(d).k, "choice", "w")
         + counter(d, Head(d).k, "recall", "c") + counter(d, Head(d).k, "recall", "w")
         + counter(d, Head(d).k, "spelling", "c") + counter(d, Head(d).k, "spelling", "w")
         + counter(d, Head(d).k, "sentence", "c") + counter(d, Head(d).k, "sentence", "w")
         + total_counts(Tail(d))

\* the step that grades the answer to the item at q_i
grades_item ==
    /\ q_pc # "idle"
    /\ quiz_call' # quiz_call
    /\ quiz_call'.op = "grade"
    /\ quiz_call'.raised = ""

\* the counters of d1 are those of d0 but for the counter x of the word w
\* under mode, which is one more
only_one_more(d0, d1, w, mode, x) ==
    /\ Keys(d1) = Keys(d0)
    /\ \A i \in 1..Len(d0) : \A m \in Range(_REQUIRED_MODES) : \A y \in {"c", "w"} :
           counter(d1, d0[i].k, m, y) =
               counter(d0, d0[i].k, m, y)
                   + (IF d0[i].k = w /\ m = mode /\ y = x THEN 1 ELSE 0)

\* C17: grading one item adds exactly 1 to exactly one of the counters c and
\* w of that record under the mode of the quiz and changes no other counter
\* of any record; the session's correct total grows by 1 exactly when it was
\* the c counter; so the sum of c + w over the session's collection has grown
\* by the number of items graded, and a session that has graded its k items
\* stores a collection whose sum has grown by k.
C17_GradingCountsOnce ==
    /\ [][grades_item =>
            /\ \E x \in {"c", "w"} :
                   /\ only_one_more(db, db', q_words[q_i], session_key, x)
                   /\ q_correct' = q_correct + (IF x = "c" THEN 1 ELSE 0)
            /\ quiz_call'.done =>
                   total_counts(wordsFile') = total_counts(wordsFile) + Len(q_words)]_vars
    /\ [](q_pc # "idle" => total_counts(db) = total_counts(wordsFile) + q_i - 1)

\* a spelling session has graded its three items, one of them correct
C17_Witness ==
    /\ quiz_call.op = "grade"
    /\ quiz_call.done
    /\ q_mode = "spelling"
    /\ Len(q_words) = 3
    /\ q_correct = 1
    /\ total_counts(wordsFile) >= 3

\* b is a with one character left out
drops_one(a, b) ==
    /\ Len(a) = Len(b) + 1
    /\ \E p \in 1..Len(a) : b = SubSeq(a, 1, p - 1) \o SubSeq(a, p + 1, Len(a))

\* a and b are one edit apart: one character replaced, left out or put in
one_edit(a, b) ==
    \/ Len(a) = Len(b) /\ Cardinality({p \in 1..Len(a) : a[p] # b[p]}) = 1
    \/ drops_one(a, b)
    \/ drops_one(b, a)

\* the step that grades a spelling answer for a record with or without the
\* sentence tag
grades_spelling(sentence) ==
    /\ grades_item
    /\ q_mode = "spelling"
    /\ _is_sentence(rec_of(db, q_words[q_i])) = sentence

\* C18: in quiz_spelling, for a record without the sentence tag, the answer
\* is compared with the word without regard to case: no edit apart is
\* correct (spelling c + 1), one edit apart is reported as almost and counted
\* wrong (spelling w + 1), more than one edit apart is wrong (spelling w + 1).
C18_WordSpellingGrades ==
    [][grades_spelling(FALSE) =>
          /\ lower(strip(quiz_call'.typed)) = lower(q_words[q_i]) =>
                 /\ only_one_more(db, db', q_words[q_i], "spelling", "c")
                 /\ quiz_call'.correct
                 /\ quiz_call'.said = "Perfect"
          /\ one_edit(lower(strip(quiz_call'.typed)), lower(q_words[q_i])) =>
                 /\ only_one_more(db, db', q_words[q_i], "spelling", "w")
                 /\ ~quiz_call'.correct
                 /\ quiz_call'.said = "Almost"
          /\ (/\ lower(strip(quiz_call'.typed)) # lower(q_words[q_i])
              /\ ~one_edit(lower(strip(quiz_call'.typed)), lower(q_words[q_i]))) =>
                 /\ only_one_more(db, db', q_words[q_i], "spelling", "w")
                 /\ ~quiz_call'.correct
                 /\ quiz_call'.said = "Wrong"]_vars

\* a word typed one letter off has been graded
C18_Witness ==
    /\ q_mode = "spelling"
    /\ quiz_call.op = "grade"
    /\ quiz_call.typed = <<"c", "o", "t">>
    /\ quiz_call.target = <<"c", "a", "t">>
    /\ ~quiz_call.correct

\* a line is typed at a prompt of a spelling session
spelling_line ==
    /\ q_mode = "spelling"
    /\ q_pc \in {"ask", "replay"}
    /\ quiz_call' # quiz_call
    /\ quiz_call'.op # "abort"

\* C31: in a spelling session an empty first answer to an item replays the
\* audio and prompts once more, grading nothing; the answer to that second
\* prompt is graded whatever it is, an empty one too; so an item is prompted
\* at most twice and graded once, and the items are graded one after the
\* other, the session ending with the last.
C31_OneReplayThenGraded ==
    [][spelling_line =>
          /\ quiz_call'.op \in {"replay", "grade"}
          /\ quiz_call'.op = "replay" =>
                 /\ q_pc = "ask"
                 /\ q_pc' = "replay"
                 /\ UNCHANGED <<db, q_i, q_correct, wordsFile, logFile>>
          /\ q_pc = "replay" => quiz_call'.op = "grade"
          /\ quiz_call'.op = "grade" =>
                 /\ quiz_call'.target = q_words[q_i]
                 /\ quiz_call'.graded = q_i
                 /\ q_pc = "ask" => strip(quiz_call'.typed) # <<>>
                 /\ \E x \in {"c", "w"} : only_one_more(db, db', q_words[q_i], "spelling", x)
                 /\ IF q_i < Len(q_words)
                    THEN q_pc' = "ask" /\ q_i' = q_i + 1 /\ ~quiz_call'.done
                    ELSE q_pc' = "idle" /\ quiz_call'.done]_vars

\* a session of two items or more is over, its last item graded on an empty
\* second answer
C31_Witness ==
    /\ q_mode = "spelling"
    /\ q_pc = "idle"
    /\ quiz_call.op = "grade"
    /\ quiz_call.done
    /\ strip(quiz_call.typed) = <<>>
    /\ ~quiz_call.correct
    /\ Len(q_words) >= 2
    /\ Len(logFile) = 1

\* C19: in quiz_spelling, for a record with the sentence tag, an answer is
\* graded correct if and only if it equals the target after lower-casing and
\* whitespace normalisation (leading, trailing and repeated inner whitespace
\* ignored), or the first-letter signatures of answer and target are equal
\* and 1 - distance / max(len(answer), len(target)) >= sentence_threshold.
C19_SentenceGradedCorrectIff ==
    [][grades_spelling(TRUE) =>
          (quiz_call'.correct <=>
              \/ lower(_norm_sentence(quiz_call'.typed)) = lower(_norm_sentence(q_words[q_i]))
              \/ /\ _first_letter_signature(quiz_call'.typed)
                        = _first_letter_signature(q_words[q_i])
                 /\ ratio_ge(_lev_ratio(quiz_call'.typed, q_words[q_i]),
                             sentence_threshold))]_vars

====
